---- MODULE Spec2Model ----
(***************************************************************************)
(* Negative Viewer: the per-pixel negative-to-positive pipeline            *)
(* (applyFilters of src/src/App.tsx and its older variants) and the React  *)
(* component around it (state, refs, the preview effect, the image load,   *)
(* the 50 ms preview timer, sampling and export).                          *)
(*                                                                         *)
(* Numbers.  JavaScript numbers are IEEE-754 doubles.  The model computes  *)
(* with exact rationals <<n, d>> (d > 0, lowest terms) extended by the two *)
(* non-finite values the pipeline can produce, +Infinity = <<1, 0>> and    *)
(* NaN = <<0, 0>> (and -Infinity = <<-1, 0>> for closure of the            *)
(* arithmetic).  Signed zero is not distinguished.                         *)
(***************************************************************************)
EXTENDS Integers, Sequences, FiniteSets, TLC

VARIABLES
    imageLoaded,      \* useState<boolean>(false)
    isPickingBase,    \* useState<boolean>(false)
    baseColor,        \* useState(defaultBaseColor)
    baseExposure,     \* useState<number>(1.1)
    settings,         \* useState<Settings>({...})
    previewDataRef,   \* useRef<ImageData | null>: the preview original
    fullResDataRef,   \* useRef<ImageData | null>: the full-resolution original
    canvas,           \* the visible canvas: width, height and pixel bytes
    effectPending,    \* the preview useEffect is scheduled (a dependency changed)
    timers,           \* outstanding setTimeout(processPreview, 50) closures, in order
    uploads,          \* image loads in flight (file chosen, img.onload not yet run)
    saved,            \* the export canvas of the handleSave that has just run (Null otherwise)
    busy,             \* user events handled while a load is in progress
    loaded,           \* history: the bytes captured by the last completed load
    fresh,            \* history: the preview runs with the default values since the load
    pin,              \* pure-function check: the inputs drawn
    pout              \* pure-function check: the results computed from pin

vars == <<imageLoaded, isPickingBase, baseColor, baseExposure, settings,
          previewDataRef, fullResDataRef, canvas, effectPending, timers,
          uploads, saved, busy, loaded, fresh, pin, pout>>

appVars == <<imageLoaded, isPickingBase, baseColor, baseExposure, settings,
             previewDataRef, fullResDataRef, canvas, effectPending, timers,
             uploads, saved, busy, loaded, fresh>>

pureVars == <<pin, pout>>

-----------------------------------------------------------------------------
(* JavaScript numbers *)

Abs(a) == IF a < 0 THEN -a ELSE a

Sign(a) == IF a < 0 THEN -1 ELSE IF a > 0 THEN 1 ELSE 0

RECURSIVE GCD(_, _)
GCD(a, b) == IF b = 0 THEN a ELSE GCD(b, a % b)

NaN == <<0, 0>>

PInf == <<1, 0>>

NInf == <<-1, 0>>

IsNaN(x) == x[1] = 0 /\ x[2] = 0

IsFinite(x) == x[2] # 0

\* the rational n/d in lowest terms with a positive denominator (d # 0)
Norm(n, d) ==
    LET g == GCD(Abs(n), Abs(d))
        s == IF d < 0 THEN -1 ELSE 1
    IN  <<(s * n) \div g, (s * d) \div g>>

Num(i) == <<i, 1>>

\* The arithmetic below takes each operand as a value: an operand is
\* evaluated once, as the operand of a JavaScript operator is, before the
\* operation inspects it.

\* a + b
RAdd(a, b) ==
    LET Sum(x, y) ==
            IF IsNaN(x) \/ IsNaN(y) THEN NaN
            ELSE IF ~IsFinite(x) /\ ~IsFinite(y) THEN (IF x[1] = y[1] THEN x ELSE NaN)
            ELSE IF ~IsFinite(x) THEN x
            ELSE IF ~IsFinite(y) THEN y
            ELSE Norm(x[1] * y[2] + y[1] * x[2], x[2] * y[2])
    IN  CHOOSE r \in {Sum(x, y) : x \in {a}, y \in {b}} : TRUE

\* -a
RNeg(a) == CHOOSE r \in {<<-x[1], x[2]>> : x \in {a}} : TRUE

\* x - y
RSub(x, y) == RAdd(x, RNeg(y))

\* a * b (the factors are cancelled crosswise before they are multiplied)
RMul(a, b) ==
    LET Product(x, y) ==
            IF IsNaN(x) \/ IsNaN(y) THEN NaN
            ELSE IF ~IsFinite(x) \/ ~IsFinite(y)
                 THEN (IF x[1] = 0 \/ y[1] = 0 THEN NaN
                       ELSE <<Sign(x[1]) * Sign(y[1]), 0>>)
            ELSE IF x[1] = 0 \/ y[1] = 0 THEN <<0, 1>>
            ELSE LET g1 == GCD(Abs(x[1]), y[2])
                     g2 == GCD(Abs(y[1]), x[2])
                 IN  <<(x[1] \div g1) * (y[1] \div g2),
                       (x[2] \div g2) * (y[2] \div g1)>>
    IN  CHOOSE r \in {Product(x, y) : x \in {a}, y \in {b}} : TRUE

\* a / b: a finite non-zero value over zero is an infinity, 0/0 is NaN
RDiv(a, b) ==
    LET Quotient(x, y) ==
            IF IsNaN(x) \/ IsNaN(y) THEN NaN
            ELSE IF ~IsFinite(y) THEN (IF IsFinite(x) THEN <<0, 1>> ELSE NaN)
            ELSE IF ~IsFinite(x) THEN <<x[1] * (IF y[1] < 0 THEN -1 ELSE 1), 0>>
            ELSE IF y[1] = 0 THEN <<Sign(x[1]), 0>>
            ELSE RMul(x, Norm(y[2], y[1]))
    IN  CHOOSE r \in {Quotient(x, y) : x \in {a}, y \in {b}} : TRUE

\* a < b on values that are not NaN
RLt(a, b) ==
    LET Less(x, y) ==
            IF ~IsFinite(x) /\ ~IsFinite(y) THEN x[1] < y[1]
            ELSE IF ~IsFinite(x) THEN x[1] < 0
            ELSE IF ~IsFinite(y) THEN y[1] > 0
            ELSE x[1] * y[2] < y[1] * x[2]
    IN  \E x \in {a}, y \in {b} : Less(x, y)

\* Math.max(0, a)
MathMax0(a) ==
    CHOOSE r \in {IF IsNaN(x) THEN NaN ELSE IF RLt(x, Num(0)) THEN Num(0) ELSE x :
                    x \in {a}} : TRUE

RECURSIVE IntPow(_, _)
IntPow(x, k) == IF k = 0 THEN Num(1) ELSE RMul(x, IntPow(x, k - 1))

\* Math.pow(x, e) has an exact rational (or non-finite) value for x >= 0
\* with a zero or unit base, an infinite exponent or an integer exponent.
\* Elsewhere ECMAScript leaves the value implementation-approximated, and
\* MathPow is not evaluated there.
\* Math.pow(x, e) for a finite x >= 0 and e # 0, e not NaN (Number::exponentiate)
MathPow(a, b) ==
    LET Power(x, e) ==
            IF e = PInf
            THEN (IF RLt(Num(1), x) THEN PInf ELSE IF x = Num(1) THEN NaN ELSE Num(0))
            ELSE IF e = NInf
            THEN (IF RLt(Num(1), x) THEN Num(0) ELSE IF x = Num(1) THEN NaN ELSE PInf)
            ELSE IF x = Num(0) THEN (IF e[1] > 0 THEN Num(0) ELSE PInf)
            ELSE IF x = Num(1) THEN Num(1)
            ELSE IF e[1] > 0 THEN IntPow(x, e[1])
            ELSE RDiv(Num(1), IntPow(x, -e[1]))
    IN  CHOOSE r \in {Power(x, e) : x \in {a}, e \in {b}} : TRUE

\* The store of a number into a Uint8ClampedArray element (ToUint8Clamp):
\* NaN is 0, the value is clamped to [0, 255] and rounded to the nearest
\* integer, a tie going to the even one.
ToUint8Clamp(a) ==
    LET Clamped(x) ==
            IF IsNaN(x) THEN 0
            ELSE IF ~RLt(Num(0), x) THEN 0
            ELSE IF ~RLt(x, Num(255)) THEN 255
            ELSE LET f == x[1] \div x[2]
                     r == 2 * (x[1] - f * x[2])
                 IN  IF r < x[2] THEN f
                     ELSE IF r > x[2] THEN f + 1
                     ELSE IF f % 2 = 0 THEN f ELSE f + 1
    IN  CHOOSE r \in {Clamped(x) : x \in {a}} : TRUE

-----------------------------------------------------------------------------
(* The pipeline: applyFilters (src/src/App.tsx) *)

\* the mutant of MaskRemoval: the guard of the first variant (base > 0)
MaskRemoval_guard0(v, base, exposure) ==
    IF base > 0
    THEN RMul(RMul(RDiv(v, Num(base)), Num(255)), exposure)
    ELSE v

\* the mutant of MaskRemoval: no exposure compensation, as in the variants before it
MaskRemoval_noexposure(v, base, exposure) ==
    IF base > 10 THEN RMul(RDiv(v, Num(base)), Num(255)) ELSE v

\* A. r = baseR > 10 ? (r / baseR) * 255 * baseExposure : r
MaskRemoval(v, base, exposure) ==
    IF base > 10
    THEN RMul(RMul(RDiv(v, Num(base)), Num(255)), exposure)
    ELSE v

\* B. r = 255 - r
Invert(v) == RSub(Num(255), v)

\* C. r += rShadow
ShadowOffset(v, shadow) == RAdd(v, Num(shadow))

\* the mutant of HighlightGain: a gain quadratic in the highlight value
HighlightGain_quadratic(v, high) ==
    RMul(v, RAdd(Num(1), RDiv(Num(high * high), Num(100))))

\* r *= (1 + rHigh / 100)
HighlightGain(v, high) == RMul(v, RAdd(Num(1), RDiv(Num(high), Num(100))))

\* the exponent 1 / (1 + rMid / 50)
MidExponent(mid) == RDiv(Num(1), RAdd(Num(1), RDiv(Num(mid), Num(50))))

\* if (rMid !== 0) r = 255 * Math.pow(Math.max(0, r / 255), 1 / (1 + rMid / 50))
MidtoneCurve(v, mid) ==
    IF mid # 0
    THEN RMul(Num(255), MathPow(MathMax0(RDiv(v, Num(255))), MidExponent(mid)))
    ELSE v

\* D. r *= brightness
BrightnessGain(v, brightness) == RMul(v, brightness)

\* E. r = contrast * (r - 128) + 128
ContrastPivot(v, contrast) == RAdd(RMul(contrast, RSub(v, Num(128))), Num(128))

\* the mutant of ChannelValue: brightness and contrast applied before the tone stages
ChannelValue_reordered(v, base, exposure, shadow, high, mid, brightness, contrast) ==
    LET a == MaskRemoval(Num(v), base, exposure)
        b == Invert(a)
        d == BrightnessGain(b, brightness)
        e == ContrastPivot(d, contrast)
        f == ShadowOffset(e, shadow)
        g == HighlightGain(f, high)
    IN  MidtoneCurve(g, mid)

\* one channel of one pixel through the loop body, before the write to newData
ChannelValue(v, base, exposure, shadow, high, mid, brightness, contrast) ==
    LET a == MaskRemoval(Num(v), base, exposure)
        b == Invert(a)
        c == ShadowOffset(b, shadow)
        d == HighlightGain(c, high)
        e == MidtoneCurve(d, mid)
        f == BrightnessGain(e, brightness)
    IN  ContrastPivot(f, contrast)

\* the mutant of Store: the store of a plain Uint8Array (modulo 256, truncating)
Store_wrap(a) ==
    LET Wrapped(x) ==
            IF ~IsFinite(x) THEN 0
            ELSE LET t == IF x[1] >= 0 THEN x[1] \div x[2] ELSE -((-x[1]) \div x[2])
                 IN  t % 256
    IN  CHOOSE r \in {Wrapped(x) : x \in {a}} : TRUE

\* newData[i] = r: newData is a Uint8ClampedArray
Store(x) == ToUint8Clamp(x)

\* the value the loop computes for byte i (1-based) of the buffer; the
\* fourth byte of a pixel, alpha, is not computed
LoopValue(data, i, base, exposure, set) ==
    LET c == (i - 1) % 4
    IN  IF c = 0
        THEN ChannelValue(data[i], base.r, exposure, set.rShadow, set.rHigh,
                          set.rMid, set.brightness, set.contrast)
        ELSE IF c = 1
        THEN ChannelValue(data[i], base.g, exposure, set.gShadow, set.gHigh,
                          set.gMid, set.brightness, set.contrast)
        ELSE ChannelValue(data[i], base.b, exposure, set.bShadow, set.bHigh,
                          set.bMid, set.brightness, set.contrast)

\* the mutant of FilterLoop: the loop inverts the alpha byte as well
FilterLoop_alpha(newData, base, exposure, set) ==
    [i \in 1..Len(newData) |->
        IF (i - 1) % 4 = 3 THEN 255 - newData[i]
        ELSE Store(LoopValue(newData, i, base, exposure, set))]

\* for (let i = 0; i < newData.length; i += 4) { ... }: the bytes of newData
\* after the loop
FilterLoop(newData, base, exposure, set) ==
    [i \in 1..Len(newData) |->
        IF (i - 1) % 4 = 3 THEN newData[i]
        ELSE Store(LoopValue(newData, i, base, exposure, set))]

\* the mutant of ApplyFilters: no copy, the loop writes into sourceData
ApplyFilters_inplace(sourceData, width, height, base, exposure, set) ==
    LET written == FilterLoop(sourceData, base, exposure, set)
    IN  [image  |-> [data |-> written, width |-> width, height |-> height],
         source |-> written]

\* applyFilters: the ImageData returned, and the bytes sourceData holds
\* after the call (newData is a copy, so the loop leaves sourceData alone)
ApplyFilters(sourceData, width, height, base, exposure, set) ==
    LET newData == sourceData
    IN  [image  |-> [data   |-> FilterLoop(newData, base, exposure, set),
                     width  |-> width,
                     height |-> height],
         source |-> sourceData]

-----------------------------------------------------------------------------
(* The older variants' mask removal *)

\* processImage of the first variant: r = baseR > 0 ? (r / baseR) * 255 : r
MaskRemovalFirst(v, base) ==
    IF base > 0 THEN RMul(RDiv(v, Num(base)), Num(255)) ELSE v

\* processPixels of the camera variant: r = baseR > 10 ? (r / baseR) * 255 : r
MaskRemovalCamera(v, base) ==
    IF base > 10 THEN RMul(RDiv(v, Num(base)), Num(255)) ELSE v

-----------------------------------------------------------------------------
(* The component's state: App (src/src/App.tsx) *)

\* const defaultBaseColor = { r: 240, g: 170, b: 140 }
defaultBaseColor == [r |-> 240, g |-> 170, b |-> 140]

\* useState<number>(1.1), setBaseExposure(1.1)
defaultExposure == <<11, 10>>

\* the object resetSettings stores, equal to the initial useState<Settings> value
defaultSettings ==
    [brightness |-> Num(1), contrast |-> <<11, 10>>,
     rShadow |-> 0, gShadow |-> 0, bShadow |-> 0,
     rHigh |-> 0, gHigh |-> 0, bHigh |-> 0,
     rMid |-> 0, gMid |-> 0, bMid |-> 0]

\* a ref that holds null
Null == [data |-> <<>>, width |-> 0, height |-> 0]

\* no run with the default values recorded since the load
NoFresh == [phase |-> "none", data |-> <<>>]

NoInput == [pixel |-> <<>>, base |-> defaultBaseColor, exposure |-> defaultExposure,
            set |-> defaultSettings]

NoOutput == [done |-> FALSE]

\* the component after its first render: the effect of the mount is scheduled
AppInit ==
    /\ imageLoaded = FALSE
    /\ isPickingBase = FALSE
    /\ baseColor = defaultBaseColor
    /\ baseExposure = defaultExposure
    /\ settings = defaultSettings
    /\ previewDataRef = Null
    /\ fullResDataRef = Null
    /\ canvas = Null
    /\ effectPending = TRUE
    /\ timers = <<>>
    /\ uploads = {}
    /\ saved = Null
    /\ busy = 0
    /\ loaded = [preview |-> Null, full |-> Null]
    /\ fresh = NoFresh

-----------------------------------------------------------------------------
(* Inputs of the component *)

\* image loads in progress: chosen files whose preview timer has not run yet
MaxLoads == 1

\* tone values the +/- buttons are pressed to: -MaxTone..MaxTone
MaxTone == 1

\* user events handled while an image load is in progress (from the choice
\* of the file to the run of its 50 ms timer)
MaxEdits == 1

\* decoded source images (RGBA bytes, row-major); both are narrower than
\* the preview cap, so their previews keep the source size
Images ==
    {[width |-> 2, height |-> 1,
      data |-> <<200, 120, 90, 255, 240, 170, 140, 255>>],
     [width |-> 1, height |-> 2,
      data |-> <<240, 170, 140, 255, 200, 120, 90, 255>>]}

\* values the exposure slider is moved to (min 0.5, max 3.0, step 0.1)
ExposureValues == {Num(1)}

\* values the brightness and contrast sliders are moved to (min 0.5, max 2.0, step 0.05)
SliderValues == {Num(2)}

\* the sliders of handleSlider that are moved
SliderKeys == {"brightness"}

\* the tone controls whose +/- buttons are pressed.  No midtone control is
\* among them: a midtone strength reached in one press has an exponent on
\* which Math.pow is implementation-approximated (see MathPow).
PressedKeys == {"rShadow"}

\* buffer coordinates a pointer-up maps to
Coordinates == {-1, 0, 1}

-----------------------------------------------------------------------------
(* The image load: handleImageUpload and img.onload *)

\* const previewMaxWidth = 800
previewMaxWidth == 800

\* the mutant of PreviewScale: the ratio without the minimum with 1
PreviewScale_nomin(width) == RDiv(Num(previewMaxWidth), Num(width))

\* Math.min(1, previewMaxWidth / img.width)
PreviewScale(width) ==
    LET q == RDiv(Num(previewMaxWidth), Num(width))
    IN  IF RLt(q, Num(1)) THEN q ELSE Num(1)

\* canvas.width = img.width * scale: the sizes the canvas can keep, the
\* integer part of the product.  With scale = 1 the product is x.  With
\* scale < 1 the double product of an integer-valued x * scale can fall
\* just below the integer (1078 * (800 / 1078) is 799.9999999999999), and
\* its integer part is then one less.
CanvasSize(x, scale) ==
    LET p == RMul(Num(x), scale)
        n == p[1] \div p[2]
    IN  IF scale # Num(1) /\ p[2] = 1 /\ n > 0 THEN {n - 1, n} ELSE {n}

\* ctx.drawImage(img, 0, 0, w, h) then ctx.getImageData(0, 0, w, h): the
\* source itself when the size is kept, the nearest source pixel otherwise
DrawImage(img, w, h) ==
    [width  |-> w,
     height |-> h,
     data   |-> [i \in 1..(4 * w * h) |->
                   LET px == (i - 1) \div 4
                       x  == px % w
                       y  == px \div w
                       sx == (x * img.width) \div w
                       sy == (y * img.height) \div h
                   IN  img.data[(sy * img.width + sx) * 4 + ((i - 1) % 4) + 1]]]

\* an image load is in progress: a file is being read or decoded, or the
\* timer of a completed load has not run yet
InFlight(ups, tms) == ups # {} \/ tms # <<>>

\* handleImageUpload: the file is read and decoded asynchronously; the
\* callbacks close over the render in which the input changed
HandleImageUpload ==
    /\ ~effectPending
    /\ Cardinality(uploads) + Len(timers) < MaxLoads
    /\ \E img \in Images :
          uploads' = uploads \cup {[img |-> img, base |-> baseColor,
                                    exposure |-> baseExposure, set |-> settings]}
    /\ saved' = Null
    /\ UNCHANGED <<imageLoaded, isPickingBase, baseColor, baseExposure, settings,
                   previewDataRef, fullResDataRef, canvas, effectPending, timers,
                   busy, loaded, fresh>>

\* img.onload
ImgOnload ==
    \E u \in uploads, ctxOk \in BOOLEAN, fullOk \in BOOLEAN :
        /\ ~effectPending
        /\ uploads' = uploads \ {u}
        /\ saved' = Null
        /\ busy' = IF ctxOk \/ InFlight(uploads', timers) THEN busy ELSE 0
        /\ IF ~ctxOk
           THEN UNCHANGED <<imageLoaded, isPickingBase, baseColor, baseExposure,
                            settings, previewDataRef, fullResDataRef, canvas,
                            effectPending, timers, loaded, fresh>>
           ELSE \E w \in CanvasSize(u.img.width, PreviewScale(u.img.width)),
                   h \in CanvasSize(u.img.height, PreviewScale(u.img.width)) :
                LET preview == DrawImage(u.img, w, h)
                    full    == IF fullOk THEN u.img ELSE fullResDataRef
                IN  /\ fullResDataRef' = full
                    /\ canvas' = preview
                    /\ previewDataRef' = preview
                    /\ imageLoaded' = TRUE
                    /\ baseColor' = defaultBaseColor
                    /\ baseExposure' = defaultExposure
                    /\ settings' = defaultSettings
                    /\ isPickingBase' = FALSE
                    /\ effectPending' = TRUE
                    /\ timers' = Append(timers, [base |-> u.base,
                                                 exposure |-> u.exposure,
                                                 set |-> u.set])
                    /\ loaded' = [preview |-> preview, full |-> full]
                    /\ fresh' = NoFresh

-----------------------------------------------------------------------------
(* The preview: processPreview, the effect and the timer *)

\* ctx.putImageData(image, 0, 0): the bytes of the canvas afterwards
PutImageData(cv, image) ==
    [i \in 1..Len(cv.data) |->
        LET px == (i - 1) \div 4
            x  == px % cv.width
            y  == px \div cv.width
        IN  IF x < image.width /\ y < image.height
            THEN image.data[(y * image.width + x) * 4 + ((i - 1) % 4) + 1]
            ELSE cv.data[i]]

\* the history of preview runs since the load, after one more run: a run
\* with the default values ("first", its output kept in data), then a run
\* with other values and another output ("other"), then a run with the
\* default values again ("again")
FreshAfter(base, exposure, set, data) ==
    LET isDefault == /\ base = defaultBaseColor
                     /\ exposure = defaultExposure
                     /\ set = defaultSettings
    IN  CASE fresh.phase = "none"  ->
               IF isDefault THEN [phase |-> "first", data |-> data] ELSE fresh
          [] fresh.phase = "first" ->
               IF ~isDefault /\ data # fresh.data
               THEN [fresh EXCEPT !.phase = "other"] ELSE fresh
          [] OTHER ->
               [fresh EXCEPT !.phase = IF isDefault THEN "again" ELSE "other"]

\* the mutant of ProcessPreview: the run filters what the canvas shows
ProcessPreview_fromcanvas(base, exposure, set) ==
    IF previewDataRef = Null
    THEN UNCHANGED <<previewDataRef, canvas, fresh>>
    ELSE \E r \in {ApplyFilters(canvas.data, previewDataRef.width,
                              previewDataRef.height, base, exposure, set)} :
             /\ canvas' = [canvas EXCEPT !.data = PutImageData(canvas, r.image)]
             /\ UNCHANGED previewDataRef
             /\ fresh' = FreshAfter(base, exposure, set, r.image.data)

\* processPreview, with the baseColor, baseExposure and settings of the
\* render whose closure it is
ProcessPreview(base, exposure, set) ==
    IF previewDataRef = Null
    THEN UNCHANGED <<previewDataRef, canvas, fresh>>
    ELSE \E r \in {ApplyFilters(previewDataRef.data, previewDataRef.width,
                              previewDataRef.height, base, exposure, set)} :
             /\ canvas' = [canvas EXCEPT !.data = PutImageData(canvas, r.image)]
             /\ previewDataRef' = [previewDataRef EXCEPT !.data = r.source]
             /\ fresh' = FreshAfter(base, exposure, set, r.image.data)

\* useEffect(() => { if (imageLoaded) processPreview() },
\*           [baseColor, baseExposure, settings, imageLoaded])
RunEffect ==
    /\ effectPending
    /\ effectPending' = FALSE
    /\ IF imageLoaded
       THEN ProcessPreview(baseColor, baseExposure, settings)
       ELSE UNCHANGED <<previewDataRef, canvas, fresh>>
    /\ saved' = Null
    /\ UNCHANGED <<imageLoaded, isPickingBase, baseColor, baseExposure, settings,
                   fullResDataRef, timers, uploads, busy, loaded>>

\* setTimeout(processPreview, 50) comes due: processPreview of the render
\* in which the file input changed
TimerFire ==
    /\ timers # <<>>
    /\ timers' = Tail(timers)
    /\ ProcessPreview(Head(timers).base, Head(timers).exposure, Head(timers).set)
    /\ saved' = Null
    /\ busy' = IF InFlight(uploads, timers') THEN busy ELSE 0
    /\ UNCHANGED <<imageLoaded, isPickingBase, baseColor, baseExposure, settings,
                   fullResDataRef, effectPending, uploads, loaded>>

-----------------------------------------------------------------------------
(* The controls: rendered, or enabled, only while imageLoaded.              *)
(* React runs the effect of a render before it renders the next update,    *)
(* and no handler reads what the effect writes (the canvas bytes), so a    *)
(* handler is taken once the scheduled effect has run.  The timer is not a *)
(* React callback: it comes due before or after the effect.                *)

\* a user event is handled
UserEvent ==
    /\ InFlight(uploads, timers) => busy < MaxEdits
    /\ busy' = IF InFlight(uploads, timers) THEN busy + 1 ELSE busy

\* what a handler that stores new state leaves alone
HandlerFrame ==
    /\ UserEvent
    /\ saved' = Null
    /\ UNCHANGED <<imageLoaded, previewDataRef, fullResDataRef, canvas, timers,
                   uploads, loaded, fresh>>

\* onChange={e => setBaseExposure(parseFloat(e.target.value))}
SetBaseExposure ==
    /\ ~effectPending
    /\ imageLoaded
    /\ \E e \in ExposureValues :
          /\ e # baseExposure
          /\ baseExposure' = e
    /\ effectPending' = TRUE
    /\ HandlerFrame
    /\ UNCHANGED <<isPickingBase, baseColor, settings>>

\* the mutant of HandleSlider: settings is missing from the effect's dependencies
HandleSlider_noeffect ==
    /\ ~effectPending
    /\ imageLoaded
    /\ \E key \in SliderKeys, val \in SliderValues :
          /\ val # settings[key]
          /\ settings' = [settings EXCEPT ![key] = val]
    /\ HandlerFrame
    /\ UNCHANGED <<isPickingBase, baseColor, baseExposure, effectPending>>

\* the mutant of HandleSlider: the new object is built from the defaults,
\* not from prev
HandleSlider_replace ==
    /\ ~effectPending
    /\ imageLoaded
    /\ \E key \in SliderKeys, val \in SliderValues :
          /\ val # settings[key]
          /\ settings' = [defaultSettings EXCEPT ![key] = val]
    /\ effectPending' = TRUE
    /\ HandlerFrame
    /\ UNCHANGED <<isPickingBase, baseColor, baseExposure>>

\* handleSlider: setSettings(prev => ({ ...prev, [key]: parseFloat(val) }))
HandleSlider ==
    /\ ~effectPending
    /\ imageLoaded
    /\ \E key \in SliderKeys, val \in SliderValues :
          /\ val # settings[key]
          /\ settings' = [settings EXCEPT ![key] = val]
    /\ effectPending' = TRUE
    /\ HandlerFrame
    /\ UNCHANGED <<isPickingBase, baseColor, baseExposure>>

\* renderChannelControl.update(delta), from the - and + buttons:
\* setSettings(prev => ({ ...prev, [settingKey]: prev[settingKey] + delta }))
Update ==
    /\ ~effectPending
    /\ imageLoaded
    /\ \E key \in PressedKeys, delta \in {-1, 1} :
          /\ settings[key] + delta \in (-MaxTone)..MaxTone
          /\ settings' = [settings EXCEPT ![key] = settings[key] + delta]
    /\ effectPending' = TRUE
    /\ HandlerFrame
    /\ UNCHANGED <<isPickingBase, baseColor, baseExposure>>

\* resetBase: defaultBaseColor is a new object in every render, so the
\* stored baseColor changes identity and the effect runs
ResetBase ==
    /\ ~effectPending
    /\ imageLoaded
    /\ baseColor' = defaultBaseColor
    /\ baseExposure' = defaultExposure
    /\ isPickingBase' = FALSE
    /\ effectPending' = TRUE
    /\ HandlerFrame
    /\ UNCHANGED settings

\* resetSettings, from its button: a new settings object
ResetSettings ==
    /\ ~effectPending
    /\ imageLoaded
    /\ settings' = defaultSettings
    /\ effectPending' = TRUE
    /\ HandlerFrame
    /\ UNCHANGED <<isPickingBase, baseColor, baseExposure>>

\* onClick={() => setIsPickingBase(!isPickingBase)}
TogglePick ==
    /\ ~effectPending
    /\ imageLoaded
    /\ isPickingBase' = ~isPickingBase
    /\ HandlerFrame
    /\ UNCHANGED <<baseColor, baseExposure, settings, effectPending>>

\* the mutant of HandlePointerUpAt: the sample is read from the canvas
HandlePointerUpAt_fromcanvas(x, y) ==
    LET index == (y * canvas.width + x) * 4
        data  == canvas.data
    IN  /\ ~effectPending
        /\ HandlerFrame
        /\ UNCHANGED <<baseExposure, settings>>
        /\ IF ~isPickingBase \/ previewDataRef = Null
           THEN UNCHANGED <<baseColor, isPickingBase, effectPending>>
           ELSE IF index >= 0 /\ index < Len(data)
           THEN /\ baseColor' = [r |-> data[index + 1], g |-> data[index + 2],
                                 b |-> data[index + 3]]
                /\ isPickingBase' = FALSE
                /\ effectPending' = TRUE
           ELSE UNCHANGED <<baseColor, isPickingBase, effectPending>>

\* the mutant of HandlePointerUpAt: the sample is taken whether or not
\* picking mode is on
HandlePointerUpAt_always(x, y) ==
    LET index == (y * canvas.width + x) * 4
        data  == previewDataRef.data
    IN  /\ ~effectPending
        /\ HandlerFrame
        /\ UNCHANGED <<baseExposure, settings>>
        /\ IF previewDataRef = Null
           THEN UNCHANGED <<baseColor, isPickingBase, effectPending>>
           ELSE IF index >= 0 /\ index < Len(data)
           THEN /\ baseColor' = [r |-> data[index + 1], g |-> data[index + 2],
                                 b |-> data[index + 3]]
                /\ isPickingBase' = FALSE
                /\ effectPending' = TRUE
           ELSE UNCHANGED <<baseColor, isPickingBase, effectPending>>

\* handlePointerUp, with the buffer coordinate (x, y) the pointer maps to:
\* data[index] !== undefined holds exactly for 0 <= index < data.length
HandlePointerUpAt(x, y) ==
    LET index == (y * canvas.width + x) * 4
        data  == previewDataRef.data
    IN  /\ ~effectPending
        /\ HandlerFrame
        /\ UNCHANGED <<baseExposure, settings>>
        /\ IF ~isPickingBase \/ previewDataRef = Null
           THEN UNCHANGED <<baseColor, isPickingBase, effectPending>>
           ELSE IF index >= 0 /\ index < Len(data)
           THEN /\ baseColor' = [r |-> data[index + 1], g |-> data[index + 2],
                                 b |-> data[index + 3]]
                /\ isPickingBase' = FALSE
                /\ effectPending' = TRUE
           ELSE UNCHANGED <<baseColor, isPickingBase, effectPending>>

\* handlePointerUp
HandlePointerUp ==
    \E x \in Coordinates, y \in Coordinates : HandlePointerUpAt(x, y)

-----------------------------------------------------------------------------
(* The export: handleSave *)

\* the mutant of HandleSave: the export filters the preview original
HandleSave_preview ==
    /\ ~effectPending
    /\ UserEvent
    /\ UNCHANGED <<imageLoaded, isPickingBase, baseColor, baseExposure, settings,
                   previewDataRef, canvas, effectPending, timers, uploads, loaded,
                   fresh>>
    /\ IF fullResDataRef = Null
       THEN /\ saved' = Null
            /\ UNCHANGED fullResDataRef
       ELSE \E r \in {ApplyFilters(previewDataRef.data, previewDataRef.width,
                                 previewDataRef.height, baseColor, baseExposure,
                                 settings)} :
                /\ UNCHANGED fullResDataRef
                /\ saved' = r.image

\* the mutant of HandleSave: without an original a blank canvas is exported
HandleSave_blank ==
    /\ ~effectPending
    /\ UserEvent
    /\ UNCHANGED <<imageLoaded, isPickingBase, baseColor, baseExposure, settings,
                   previewDataRef, canvas, effectPending, timers, uploads, loaded,
                   fresh>>
    /\ IF fullResDataRef = Null
       THEN /\ saved' = [data |-> <<0, 0, 0, 0>>, width |-> 1, height |-> 1]
            /\ UNCHANGED fullResDataRef
       ELSE \E r  \in {ApplyFilters(fullResDataRef.data, fullResDataRef.width,
                                  fullResDataRef.height, baseColor, baseExposure,
                                  settings)},
               cv \in {[width  |-> fullResDataRef.width,
                        height |-> fullResDataRef.height,
                        data   |-> [i \in 1..(4 * fullResDataRef.width
                                                * fullResDataRef.height) |-> 0]]} :
                /\ fullResDataRef' = [fullResDataRef EXCEPT !.data = r.source]
                /\ \E saveCtxOk \in BOOLEAN :
                      saved' = IF saveCtxOk
                               THEN [cv EXCEPT !.data = PutImageData(cv, r.image)]
                               ELSE Null

\* the mutant of HandleSave: the export filters with exposure 1 instead of
\* baseExposure
HandleSave_noexposure ==
    /\ ~effectPending
    /\ UserEvent
    /\ UNCHANGED <<imageLoaded, isPickingBase, baseColor, baseExposure, settings,
                   previewDataRef, canvas, effectPending, timers, uploads, loaded,
                   fresh>>
    /\ IF fullResDataRef = Null
       THEN /\ saved' = Null
            /\ UNCHANGED fullResDataRef
       ELSE \E r  \in {ApplyFilters(fullResDataRef.data, fullResDataRef.width,
                                  fullResDataRef.height, baseColor, Num(1),
                                  settings)},
               cv \in {[width  |-> fullResDataRef.width,
                        height |-> fullResDataRef.height,
                        data   |-> [i \in 1..(4 * fullResDataRef.width
                                                * fullResDataRef.height) |-> 0]]} :
                /\ fullResDataRef' = [fullResDataRef EXCEPT !.data = r.source]
                /\ \E saveCtxOk \in BOOLEAN :
                      saved' = IF saveCtxOk
                               THEN [cv EXCEPT !.data = PutImageData(cv, r.image)]
                               ELSE Null

\* handleSave, up to saveCtx.putImageData(processedFullData, 0, 0); the
\* watermark and the JPEG encoding that follow it are not modelled
HandleSave ==
    /\ ~effectPending
    /\ UserEvent
    /\ UNCHANGED <<imageLoaded, isPickingBase, baseColor, baseExposure, settings,
                   previewDataRef, canvas, effectPending, timers, uploads, loaded,
                   fresh>>
    /\ IF fullResDataRef = Null
       THEN /\ saved' = Null
            /\ UNCHANGED fullResDataRef
       ELSE \E r  \in {ApplyFilters(fullResDataRef.data, fullResDataRef.width,
                                  fullResDataRef.height, baseColor, baseExposure,
                                  settings)},
               cv \in {[width  |-> fullResDataRef.width,
                        height |-> fullResDataRef.height,
                        data   |-> [i \in 1..(4 * fullResDataRef.width
                                                * fullResDataRef.height) |-> 0]]} :
                /\ fullResDataRef' = [fullResDataRef EXCEPT !.data = r.source]
                /\ \E saveCtxOk \in BOOLEAN :
                      saved' = IF saveCtxOk
                               THEN [cv EXCEPT !.data = PutImageData(cv, r.image)]
                               ELSE Null

-----------------------------------------------------------------------------
(* The component *)

Next ==
    \/ HandleImageUpload /\ UNCHANGED pureVars
    \/ ImgOnload /\ UNCHANGED pureVars
    \/ RunEffect /\ UNCHANGED pureVars
    \/ TimerFire /\ UNCHANGED pureVars
    \/ SetBaseExposure /\ UNCHANGED pureVars
    \/ HandleSlider /\ UNCHANGED pureVars
    \/ Update /\ UNCHANGED pureVars
    \/ ResetBase /\ UNCHANGED pureVars
    \/ ResetSettings /\ UNCHANGED pureVars
    \/ TogglePick /\ UNCHANGED pureVars
    \/ HandlePointerUp /\ UNCHANGED pureVars
    \/ HandleSave /\ UNCHANGED pureVars

Init == AppInit /\ pin = NoInput /\ pout = NoOutput

Spec == Init /\ [][Next]_vars

\* React runs a scheduled effect after the commit, and a timer comes due
FairSpec == Spec /\ WF_vars(RunEffect /\ UNCHANGED pureVars)
                 /\ WF_vars(TimerFire /\ UNCHANGED pureVars)

-----------------------------------------------------------------------------
(* The pipeline on drawn inputs *)

\* tone presets reachable with the +/- buttons from the defaults
ToneOf(rs, gs, bs, rh, gh, bh, rm, gm, bm) ==
    [defaultSettings EXCEPT !.rShadow = rs, !.gShadow = gs, !.bShadow = bs,
                            !.rHigh = rh, !.gHigh = gh, !.bHigh = bh,
                            !.rMid = rm, !.gMid = gm, !.bMid = bm]

PurePixels ==
    {<<v, gba[1], gba[2], gba[3]>> : v \in 0..255,
                                    gba \in {<<120, 90, 255>>, <<0, 255, 128>>}}

\* inputs with every midtone strength 0
PureLinearInputs ==
    [pixel    : PurePixels,
     base     : {defaultBaseColor, [r |-> 10, g |-> 10, b |-> 10],
                 [r |-> 11, g |-> 5, b |-> 0], [r |-> 255, g |-> 255, b |-> 255]},
     exposure : {Num(1), <<11, 10>>},
     set      : {[t EXCEPT !.brightness = br, !.contrast = ct] :
                    t \in {ToneOf(0, 0, 0, 0, 0, 0, 0, 0, 0),
                           ToneOf(20, -30, 0, -50, 0, 50, 0, 0, 0),
                           ToneOf(-20, 0, 100, 50, 25, -100, 0, 0, 0)},
                    br \in {Num(1), Num(2)},
                    ct \in {Num(1), <<11, 10>>}}]

\* inputs with midtone strengths whose exponent is an integer or infinite
PureMidInputs ==
    [pixel    : PurePixels,
     base     : {[r |-> 10, g |-> 10, b |-> 10], [r |-> 255, g |-> 255, b |-> 255]},
     exposure : {Num(1)},
     set      : {[t EXCEPT !.brightness = Num(1), !.contrast = Num(1)] :
                    t \in {ToneOf(0, 0, 0, 0, 0, 0, -25, -50, -75),
                           ToneOf(20, 0, 0, 50, 0, 0, -25, -100, -50),
                           ToneOf(0, 0, 10, 0, 0, 0, -75, -25, -100)}}]

PureInit ==
    /\ AppInit
    /\ pin \in PureLinearInputs \cup PureMidInputs
    /\ pout = NoOutput

\* the pipeline run on the drawn pixel, with the values of its stages
PureApply ==
    /\ pout = NoOutput
    /\ LET r == ApplyFilters(pin.pixel, 1, 1, pin.base, pin.exposure, pin.set)
       IN  pout' = [done   |-> TRUE,
                    image  |-> r.image,
                    source |-> r.source,
                    value  |-> [i \in 1..3 |->
                                  LoopValue(pin.pixel, i, pin.base, pin.exposure, pin.set)],
                    mask   |-> [i \in 1..3 |->
                                  LET b == IF i = 1 THEN pin.base.r
                                           ELSE IF i = 2 THEN pin.base.g ELSE pin.base.b
                                  IN  [app    |-> MaskRemoval(Num(pin.pixel[i]), b, pin.exposure),
                                       first  |-> MaskRemovalFirst(Num(pin.pixel[i]), b),
                                       camera |-> MaskRemovalCamera(Num(pin.pixel[i]), b)]]]
    /\ UNCHANGED pin

PureNext == PureApply /\ UNCHANGED appVars

SpecPure == PureInit /\ [][PureNext]_vars

-----------------------------------------------------------------------------
(* The preview size on drawn image sizes *)

\* widths of decoded images, around the preview cap
SizeWidths == {1, 400, 799, 800, 801, 1000, 1078, 1340, 1600, 2400, 4000}

\* heights of decoded images, tall enough for the preview to keep a row
SizeHeights == {400, 799, 800, 801, 1000, 1340, 1600, 2400, 3000, 4000}

SizeInit ==
    /\ AppInit
    /\ pin \in [width : SizeWidths, height : SizeHeights]
    /\ pout = NoOutput

\* img.onload, from the scale to the size of the preview canvas, which is
\* the size of the ImageData that previewDataRef keeps
PreviewSize ==
    /\ pout = NoOutput
    /\ \E w \in CanvasSize(pin.width, PreviewScale(pin.width)),
          h \in CanvasSize(pin.height, PreviewScale(pin.width)) :
          pout' = [done |-> TRUE, scale |-> PreviewScale(pin.width),
                   width |-> w, height |-> h]
    /\ UNCHANGED pin

SizeNext == PreviewSize /\ UNCHANGED appVars

SpecSize == SizeInit /\ [][SizeNext]_vars

-----------------------------------------------------------------------------
(* Claims about the pipeline, checked under SpecPure *)

BaseOf(i) == IF i = 1 THEN pin.base.r ELSE IF i = 2 THEN pin.base.g ELSE pin.base.b

ShadowOf(i) ==
    IF i = 1 THEN pin.set.rShadow ELSE IF i = 2 THEN pin.set.gShadow ELSE pin.set.bShadow

HighOf(i) ==
    IF i = 1 THEN pin.set.rHigh ELSE IF i = 2 THEN pin.set.gHigh ELSE pin.set.bHigh

MidOf(i) ==
    IF i = 1 THEN pin.set.rMid ELSE IF i = 2 THEN pin.set.gMid ELSE pin.set.bMid

\* the value of channel i after mask removal, inversion, shadow offset and
\* highlight gain, in this order, written out as arithmetic
AfterHighlight(i) ==
    LET v  == Num(pin.pixel[i])
        s1 == IF BaseOf(i) > 10
              THEN RMul(RMul(RDiv(v, Num(BaseOf(i))), Num(255)), pin.exposure)
              ELSE v
        s2 == RSub(Num(255), s1)
        s3 == RAdd(s2, Num(ShadowOf(i)))
    IN  RMul(s3, RAdd(Num(1), RDiv(Num(HighOf(i)), Num(100))))

\* brightness, then contrast, applied to x
GlobalTone(x) ==
    RAdd(RMul(pin.set.contrast, RSub(RMul(x, pin.set.brightness), Num(128))), Num(128))

\* C3: with midtone strength 0 the value of a channel before the final write
\* is mask removal with exposure, inversion, shadow offset, highlight gain,
\* brightness, contrast, composed in this order; a non-zero midtone strength
\* acts on the value after the highlight gain and before the brightness.
C3_StageOrder ==
    pout.done =>
        \A i \in 1..3 :
            /\ MidOf(i) = 0 => pout.value[i] = GlobalTone(AfterHighlight(i))
            /\ MidOf(i) # 0 =>
                 pout.value[i] =
                    GlobalTone(RMul(Num(255),
                                    MathPow(MathMax0(RDiv(AfterHighlight(i), Num(255))),
                                            MidExponent(MidOf(i)))))

\* a run in which every stage changes the red value and the order matters
C3_Witness ==
    /\ pout.done
    /\ pin.pixel[1] = 200
    /\ pin.base.r = 240
    /\ pin.exposure = <<11, 10>>
    /\ pin.set.rShadow = 20
    /\ pin.set.rHigh = -50
    /\ pin.set.rMid = 0
    /\ pin.set.brightness = Num(2)
    /\ pin.set.contrast = <<11, 10>>
    /\ pout.value[1] = GlobalTone(AfterHighlight(1))
    /\ pout.value[1] # ChannelValue_reordered(200, 240, pin.exposure, 20, -50, 0,
                                              pin.set.brightness, pin.set.contrast)

\* C4 (as claimed): in applyFilters, processImage and processPixels alike, a
\* base channel of 0..10 makes the mask removal of that channel a no-op.
C4_GuardEverywhere ==
    pout.done =>
        \A i \in 1..3 :
            BaseOf(i) <= 10 =>
                /\ pout.mask[i].app = Num(pin.pixel[i])
                /\ pout.mask[i].first = Num(pin.pixel[i])
                /\ pout.mask[i].camera = Num(pin.pixel[i])

Neutral ==
    /\ pin.set = [defaultSettings EXCEPT !.contrast = Num(1)]
    /\ pin.exposure = Num(1)
    /\ pin.base.r <= 10 /\ pin.base.g <= 10 /\ pin.base.b <= 10

\* C5: with all tone values 0, brightness, contrast and exposure 1 and
\* every base channel <= 10, each of R, G, B of the output is 255 - input.
C5_PureInversion ==
    (pout.done /\ Neutral) =>
        \A i \in 1..3 : pout.image.data[i] = 255 - pin.pixel[i]

C5_Witness ==
    /\ pout.done
    /\ Neutral
    /\ pin.base.r = 10
    /\ pin.pixel = <<200, 120, 90, 255>>
    /\ pout.image.data = <<55, 135, 165, 255>>

\* C6: every R, G, B byte written is in 0..255: a value of 255 or more is
\* stored as 255, a value of 0 or less as 0, any other value as an integer
\* at most 1/2 away from it; the values before the write are not clamped
\* (a post-tone 200 with brightness 2 and contrast 1 is 400 and stored as
\* 255; 255 + 20 with highlight -50 is 137.5, not 127.5).
C6_ClampAtWrite ==
    pout.done =>
        \A i \in 1..3 :
            LET x == pout.value[i]
                y == pout.image.data[i]
            IN  /\ y \in 0..255
                /\ (~IsNaN(x) /\ ~RLt(x, Num(255))) => y = 255
                /\ (~IsNaN(x) /\ ~RLt(Num(0), x)) => y = 0
                /\ (IsFinite(x) /\ RLt(Num(0), x) /\ RLt(x, Num(255))) =>
                       /\ ~RLt(<<1, 2>>, RSub(Num(y), x))
                       /\ ~RLt(<<1, 2>>, RSub(x, Num(y)))
                /\ (/\ pin.pixel[i] = 55 /\ BaseOf(i) <= 10
                    /\ ShadowOf(i) = 0 /\ HighOf(i) = 0 /\ MidOf(i) = 0
                    /\ pin.set.brightness = Num(2) /\ pin.set.contrast = Num(1))
                       => (x = Num(400) /\ y = 255)
                /\ (/\ pin.pixel[i] = 0 /\ BaseOf(i) <= 10
                    /\ ShadowOf(i) = 20 /\ HighOf(i) = -50 /\ MidOf(i) = 0
                    /\ pin.set.brightness = Num(1) /\ pin.set.contrast = Num(1))
                       => (x = <<275, 2>> /\ y = 138)

\* the example of the claim: 200 * 2.0 = 400 is stored as 255
C6_Witness ==
    /\ pout.done
    /\ pin.pixel[1] = 55
    /\ pin.base.r = 10
    /\ pin.set.rShadow = 0 /\ pin.set.rHigh = 0 /\ pin.set.rMid = 0
    /\ pin.set.brightness = Num(2)
    /\ pin.set.contrast = Num(1)
    /\ pout.value[1] = Num(400)
    /\ pout.image.data[1] = 255

WorkedExample ==
    /\ pout.done
    /\ pin.pixel[1] = 200 /\ pin.pixel[2] = 120 /\ pin.pixel[3] = 90
    /\ pin.base = defaultBaseColor
    /\ pin.exposure = <<11, 10>>
    /\ pin.set = [defaultSettings EXCEPT !.contrast = Num(1)]

\* C7 (as claimed): the worked example's pixel (200, 120, 90) is written
\* as (21, 57, 77).
C7_ExampleAsClaimed ==
    WorkedExample =>
        (pout.image.data[1] = 21 /\ pout.image.data[2] = 57 /\ pout.image.data[3] = 77)

\* C7 (amended): the worked example's pixel (200, 120, 90) has the values
\* 21.25, 57 and 74.678... before the write and is written as (21, 57, 75).
C7_Example ==
    WorkedExample =>
        /\ pout.value[1] = <<85, 4>>
        /\ pout.value[2] = Num(57)
        /\ pout.value[3] = <<2091, 28>>
        /\ pout.image.data[1] = 21 /\ pout.image.data[2] = 57 /\ pout.image.data[3] = 75

C7_Witness == WorkedExample /\ pout.image.data = <<21, 57, 75, 255>>

-----------------------------------------------------------------------------
(* Claims about the component, checked under Spec and FairSpec *)

\* the bytes a single fresh run produces from the preview original the
\* last load captured
FreshRun(base, exposure, set) ==
    ApplyFilters(loaded.preview.data, loaded.preview.width, loaded.preview.height,
                 base, exposure, set).image.data

\* the step is a preview run of the effect
EffectRuns == effectPending /\ ~effectPending' /\ imageLoaded

\* the step is a preview run of a 50 ms timer
TimerRuns == timers # <<>> /\ timers' = Tail(timers)

\* C1: every preview run leaves on the canvas the bytes of a single fresh
\* run on the cached original with the values the run uses, whatever runs
\* came before it; in particular a run with the default values A, after a
\* run with other values B and another output, after a run with A, leaves
\* the bytes the first run with A produced.
C1_NoDrift ==
    [][/\ EffectRuns => canvas'.data = FreshRun(baseColor, baseExposure, settings)
       /\ TimerRuns  => canvas'.data = FreshRun(Head(timers).base,
                                                Head(timers).exposure,
                                                Head(timers).set)
       /\ ((EffectRuns \/ TimerRuns) /\ fresh'.phase = "again")
             => canvas'.data = fresh.data]_vars

\* runs with A, then B with another output, then A again have happened
C1_Witness ==
    /\ fresh.phase = "again"
    /\ ~effectPending
    /\ canvas.data = fresh.data
    /\ canvas.data = FreshRun(defaultBaseColor, defaultExposure, defaultSettings)
    /\ canvas.data # loaded.preview.data

\* C2: only the completion of an image load changes the cached originals:
\* no parameter update, sample, reset, preview run or export changes
\* previewDataRef or fullResDataRef.
C2_OriginalsKept ==
    [][(previewDataRef' # previewDataRef \/ fullResDataRef' # fullResDataRef)
          => (uploads' # uploads /\ previewDataRef' = loaded'.preview
                                 /\ fullResDataRef' = loaded'.full)]_vars

\* an export has just run, after a sample and preview runs with several
\* values, and the originals are the bytes the load captured
C2_Witness ==
    /\ saved # Null
    /\ fresh.phase = "other"
    /\ baseColor = [r |-> 200, g |-> 120, b |-> 90]
    /\ settings.rShadow # 0
    /\ previewDataRef = loaded.preview
    /\ fullResDataRef = loaded.full
    /\ canvas.data # previewDataRef.data

\* the preview original, as the current values filter it
CurrentRun ==
    ApplyFilters(previewDataRef.data, previewDataRef.width, previewDataRef.height,
                 baseColor, baseExposure, settings).image.data

\* C8 (as claimed): once no effect is scheduled, no timer is outstanding
\* and no load is in flight, the canvas shows the pipeline applied to the
\* current preview original with the current baseColor, baseExposure and
\* settings.
C8_LastWriteWins ==
    (imageLoaded /\ ~effectPending /\ timers = <<>> /\ uploads = {})
        => canvas.data = CurrentRun

\* C9: while an image is loaded, a step that changes baseColor,
\* baseExposure or settings schedules the effect, and a scheduled effect
\* leads to a state in which the effect has run and the canvas shows the
\* preview original filtered with the values then current.
C9_ChangeThenRun ==
    /\ [][(imageLoaded /\ <<baseColor, baseExposure, settings>>'
                             # <<baseColor, baseExposure, settings>>)
              => effectPending']_vars
    /\ (imageLoaded /\ effectPending)
          ~> (~effectPending /\ canvas.data = CurrentRun)

\* a slider change has been followed by its run
C9_Witness ==
    /\ imageLoaded
    /\ ~effectPending
    /\ settings.brightness = Num(2)
    /\ canvas.data = CurrentRun
    /\ canvas.data # FreshRun(defaultBaseColor, defaultExposure, defaultSettings)

\* C10: the canvas an export has just drawn has the width and height of
\* the full-resolution original and holds one application of the pipeline
\* to the full-resolution original with the current values.
C10_ExportFullRes ==
    saved # Null =>
        /\ saved.width = loaded.full.width
        /\ saved.height = loaded.full.height
        /\ saved.data = ApplyFilters(loaded.full.data, loaded.full.width,
                                     loaded.full.height, baseColor, baseExposure,
                                     settings).image.data

\* an export with changed values of an original that is not the preview's
C10_Witness ==
    /\ saved # Null
    /\ settings.brightness = Num(2)
    /\ baseExposure = Num(1)
    /\ loaded.full.width # loaded.preview.width
    /\ saved.width = loaded.full.width
    /\ saved.data # loaded.full.data
    /\ saved.data # canvas.data

-----------------------------------------------------------------------------
(* Claims about the preview size, checked under SpecSize *)

\* C11 (as claimed): the larger of the preview's width and height does not
\* exceed the preview cap, whatever the size of the source image.
C11_LongestDimensionCapped ==
    pout.done => (pout.width <= previewMaxWidth /\ pout.height <= previewMaxWidth)

-----------------------------------------------------------------------------
(* Claims about sampling, checked under Spec *)

\* the buffer coordinate (x, y) lies in the preview original
InBuffer(x, y) ==
    /\ 0 <= x /\ x < previewDataRef.width
    /\ 0 <= y /\ y < previewDataRef.height

\* the R, G, B bytes of the preview original at offset (y * width + x) * 4
PixelAt(x, y) ==
    LET offset == (y * previewDataRef.width + x) * 4
    IN  [r |-> previewDataRef.data[offset + 1],
         g |-> previewDataRef.data[offset + 2],
         b |-> previewDataRef.data[offset + 3]]

\* C12: in picking mode with an image loaded, a pointer-up that maps to a
\* buffer coordinate (x, y) inside the buffer sets baseColor to the R, G, B
\* bytes of the preview original at offset (y * width + x) * 4.
C12_SampleInBounds ==
    [][\A x \in Coordinates, y \in Coordinates :
          (isPickingBase /\ imageLoaded /\ InBuffer(x, y) /\ HandlePointerUpAt(x, y))
             => (baseColor' = PixelAt(x, y) /\ previewDataRef = loaded.preview)]_vars

\* the second row of the 1 x 2 image has been sampled, after a preview run
\* has drawn other bytes on the canvas
C12_Witness ==
    /\ imageLoaded
    /\ effectPending
    /\ ~isPickingBase
    /\ previewDataRef.width = 1
    /\ baseColor = [r |-> 200, g |-> 120, b |-> 90]
    /\ baseColor = PixelAt(0, 1)
    /\ canvas.data # previewDataRef.data

\* C13 (as claimed): a pointer-up that maps to a buffer coordinate outside
\* the buffer (x < 0, x >= width, y < 0 or y >= height) leaves baseColor
\* unchanged.
C13_SampleOutOfBounds ==
    [][\A x \in Coordinates, y \in Coordinates :
          (~InBuffer(x, y) /\ HandlePointerUpAt(x, y)) => baseColor' = baseColor]_vars

-----------------------------------------------------------------------------
(* Claims about the component without an image, checked under Spec *)

\* no original buffer exists
NoOriginal == previewDataRef = Null /\ fullResDataRef = Null

\* C14: while no original buffer exists, a pointer-up, a preview run
\* requested by the effect or a timer, and an export create no buffer,
\* change no parameter and no canvas byte, and export nothing.
C14_NoImageNoOp ==
    [][(NoOriginal /\ (HandlePointerUp \/ HandleSave \/ RunEffect \/ TimerFire))
          => /\ NoOriginal'
             /\ UNCHANGED <<imageLoaded, isPickingBase, baseColor, baseExposure,
                            settings, canvas, loaded>>
             /\ saved' = Null]_vars

\* the effect of the mount has run and a pointer-up or an export has been
\* handled, and still no buffer exists
C14_Witness ==
    /\ NoOriginal
    /\ ~imageLoaded
    /\ ~effectPending
    /\ busy = 1
    /\ saved = Null
    /\ canvas = Null
    /\ baseColor = defaultBaseColor /\ settings = defaultSettings

\* ---------------------------------------------------------------------------
\* Reset of the tone settings in the variants
\* ---------------------------------------------------------------------------

Variants == {"app", "first", "camera"}

\* useState<Settings>({ brightness: 1.0, contrast: 1.1, rBal: 0, gBal: 0, bBal: 0 })
settingsFirst ==
    [brightness |-> Num(1), contrast |-> <<11, 10>>,
     rBal |-> 0, gBal |-> 0, bBal |-> 0]

\* resetSettings of the first variant
ResetSettingsFirst ==
    [brightness |-> <<11, 10>>, contrast |-> <<6, 5>>,
     rBal |-> 0, gBal |-> 0, bBal |-> 0]

\* useState<Settings>({ brightness: 1.0, contrast: 1.1, rBal: 0, gBal: 0, bBal: 0 })
settingsCamera ==
    [brightness |-> Num(1), contrast |-> <<11, 10>>,
     rBal |-> 0, gBal |-> 0, bBal |-> 0]

\* resetParams of the camera variant
ResetParams ==
    [brightness |-> Num(1), contrast |-> <<11, 10>>,
     rBal |-> 0, gBal |-> 0, bBal |-> 0]

\* the value the settings state of a variant is initialised with
InitialSettings(variant) ==
    CASE variant = "app"    -> defaultSettings
      [] variant = "first"  -> settingsFirst
      [] variant = "camera" -> settingsCamera

\* the value the reset of a variant stores
ResetValue(variant) ==
    CASE variant = "app"    -> defaultSettings
      [] variant = "first"  -> ResetSettingsFirst
      [] variant = "camera" -> ResetParams

\* settings the sliders of a variant can have produced before the reset
ResetPriors(variant) ==
    {[InitialSettings(variant) EXCEPT !.brightness = br, !.contrast = ct] :
        br \in {<<1, 2>>, Num(1), <<11, 10>>, Num(2)},
        ct \in {<<1, 2>>, Num(1), <<11, 10>>, <<6, 5>>, Num(2)}}

ResetInit ==
    /\ AppInit
    /\ \E v \in Variants : \E p \in ResetPriors(v) : pin = [variant |-> v, set |-> p]
    /\ pout = NoOutput

\* the reset handler of the variant: setSettings(<literal>)
ResetCall ==
    /\ pout = NoOutput
    /\ pout' = [done |-> TRUE, set |-> ResetValue(pin.variant)]
    /\ UNCHANGED pin

ResetNext == ResetCall /\ UNCHANGED appVars

SpecReset == ResetInit /\ [][ResetNext]_vars

\* C15: in every variant the reset of the tone settings yields exactly the
\* values the settings state is initialised with: brightness 1.0, contrast 1.1
\* and every offset 0.
C15_ResetYieldsInitial ==
    pout.done =>
        /\ pout.set = InitialSettings(pin.variant)
        /\ pout.set.brightness = Num(1)
        /\ pout.set.contrast = <<11, 10>>
        /\ \A k \in (DOMAIN pout.set) \ {"brightness", "contrast"} : pout.set[k] = 0

\* ---------------------------------------------------------------------------
\* The state a completed load leaves (App.tsx and the variant of part_001)
\* ---------------------------------------------------------------------------

LoadVariants == {"app", "part_001"}

\* useState<RGB>({ r: 230, g: 160, b: 130 })
baseColorPart001 == [r |-> 230, g |-> 160, b |-> 130]

\* useState<Settings>({ brightness: 1.0, contrast: 1.1, rBal: 0, gBal: 0, bBal: 0 })
settingsPart001 ==
    [brightness |-> Num(1), contrast |-> <<11, 10>>, rBal |-> 0, gBal |-> 0, bBal |-> 0]

\* resetSettings of part_001
ResetSettingsPart001 ==
    [brightness |-> Num(1), contrast |-> <<11, 10>>, rBal |-> 0, gBal |-> 0, bBal |-> 0]

\* the component state after construction
InitialState(variant) ==
    IF variant = "app"
    THEN [imageLoaded |-> FALSE, isPickingBase |-> FALSE, baseColor |-> defaultBaseColor,
          baseExposure |-> defaultExposure, settings |-> defaultSettings]
    ELSE [imageLoaded |-> FALSE, isPickingBase |-> FALSE, baseColor |-> baseColorPart001,
          settings |-> settingsPart001]

\* states the controls can have produced once an image is loaded: a base
\* colour picked from the image, picking mode on or off, sliders moved
LoadPriors(variant) ==
    {InitialState(variant)} \cup
    {[InitialState(variant) EXCEPT !.imageLoaded = TRUE, !.isPickingBase = pk,
                                   !.baseColor = bc,
                                   !.settings = [@ EXCEPT !.brightness = br,
                                                          !.contrast = ct]] :
        pk \in BOOLEAN,
        bc \in {InitialState(variant).baseColor, [r |-> 200, g |-> 120, b |-> 90],
                [r |-> 0, g |-> 0, b |-> 0]},
        br \in {Num(1), <<1, 2>>, Num(2)},
        ct \in {<<11, 10>>, Num(2)}}

\* the state updates of img.onload once the canvas and its context exist
OnloadState(variant, st) ==
    IF variant = "app"
    THEN [st EXCEPT !.imageLoaded = TRUE, !.baseColor = defaultBaseColor,
                    !.baseExposure = defaultExposure, !.settings = defaultSettings,
                    !.isPickingBase = FALSE]
    ELSE [st EXCEPT !.imageLoaded = TRUE, !.isPickingBase = FALSE,
                    !.settings = ResetSettingsPart001]

LoadInit ==
    /\ AppInit
    /\ \E v \in LoadVariants : \E st \in LoadPriors(v) : pin = [variant |-> v, state |-> st]
    /\ pout = NoOutput

\* img.onload: one completed load
OnloadCall ==
    /\ pout = NoOutput
    /\ pout' = [done |-> TRUE, state |-> OnloadState(pin.variant, pin.state)]
    /\ UNCHANGED pin

LoadNext == OnloadCall /\ UNCHANGED appVars

SpecLoad == LoadInit /\ [][LoadNext]_vars

\* C16: after every completed image load, whatever the state before it, the
\* base colour is the default triple, the exposure is 1.1, every tone setting
\* has its default value, picking mode is off and imageLoaded is true.
C16_LoadResetsAll ==
    pout.done =>
        LET st == pout.state
            d  == InitialState(pin.variant)
        IN  /\ st.imageLoaded
            /\ ~st.isPickingBase
            /\ st.baseColor = d.baseColor
            /\ st.settings = d.settings
            /\ "baseExposure" \in DOMAIN st => st.baseExposure = <<11, 10>>

-----------------------------------------------------------------------------
(* Claims about the preview path and the export path, checked under Spec *)

\* the export original holds the same bytes, width and height as the
\* preview original
SameSource ==
    /\ fullResDataRef # Null
    /\ fullResDataRef.data = previewDataRef.data
    /\ fullResDataRef.width = previewDataRef.width
    /\ fullResDataRef.height = previewDataRef.height

\* C17: given the same source bytes and the same values of baseColor,
\* baseExposure and settings, a preview run and an export produce the same
\* bytes: when the canvas shows a preview run with the values the export
\* used, on an original equal to the export's, the exported pipeline output
\* equals the canvas.
C17_PreviewEqualsExport ==
    (saved # Null /\ SameSource /\ canvas.data = CurrentRun)
        => (saved.data = canvas.data /\ saved.width = canvas.width
                                     /\ saved.height = canvas.height)

\* an export, with changed values, of an original the preview also shows
C17_Witness ==
    /\ saved # Null
    /\ SameSource
    /\ canvas.data = CurrentRun
    /\ saved.data = canvas.data
    /\ saved.data # previewDataRef.data
    /\ baseExposure = Num(1)
    /\ settings # defaultSettings

-----------------------------------------------------------------------------
(* Repeated runs of the pipeline on the buffers of one load *)

\* the number of runs followed
MaxRuns == 3

\* the bytes of a loaded image small enough to be its own preview, and two
\* sets of values: a, the values after a load, and b, other values
RunInputs ==
    [data : {<<200, 120, 90, 255>>, <<0, 255, 128, 7>>,
             <<200, 120, 90, 255, 240, 170, 140, 255>>,
             <<13, 77, 255, 255, 90, 90, 90, 0>>},
     a    : {[base |-> defaultBaseColor, exposure |-> defaultExposure,
              set |-> defaultSettings]},
     b    : {[base |-> defaultBaseColor, exposure |-> Num(1),
              set |-> [defaultSettings EXCEPT !.brightness = Num(2)]],
             [base |-> [r |-> 200, g |-> 120, b |-> 90], exposure |-> defaultExposure,
              set |-> ToneOf(20, -30, 0, -50, 0, 50, 0, 0, 0)],
             [base |-> [r |-> 10, g |-> 10, b |-> 10], exposure |-> Num(1),
              set |-> ToneOf(0, 0, 10, 0, 0, 0, -75, -25, -100)]}]

\* previewDataRef and fullResDataRef hold the loaded bytes; nothing has run
RunsInit ==
    /\ AppInit
    /\ pin \in RunInputs
    /\ pout = [done |-> FALSE, preview |-> pin.data, export |-> pin.data,
               hist |-> <<>>, last |-> <<>>, first |-> [a |-> <<>>, b |-> <<>>]]

\* the mutant of PipelineRun: a run filters the output of the run before it
PipelineRun_chained(which, p) ==
    /\ Len(pout.hist) < MaxRuns
    /\ \E r \in {ApplyFilters(IF pout.last = <<>> THEN pout[which] ELSE pout.last,
                              Len(pin.data) \div 4, 1,
                              pin[p].base, pin[p].exposure, pin[p].set)} :
          pout' = [pout EXCEPT !.done = TRUE,
                               !.hist = Append(@, [which |-> which, p |-> p]),
                               !.last = r.image.data,
                               !.first[p] = IF @ = <<>> THEN r.image.data ELSE @]
    /\ UNCHANGED pin

\* one call of applyFilters by processPreview (on previewDataRef) or by
\* handleSave (on fullResDataRef) with the values a or b; the output of the
\* first run with each of a and b is kept
PipelineRun(which, p) ==
    /\ Len(pout.hist) < MaxRuns
    /\ \E r \in {ApplyFilters(pout[which], Len(pin.data) \div 4, 1,
                              pin[p].base, pin[p].exposure, pin[p].set)} :
          pout' = [pout EXCEPT !.done = TRUE,
                               ![which] = r.source,
                               !.hist = Append(@, [which |-> which, p |-> p]),
                               !.last = r.image.data,
                               !.first[p] = IF @ = <<>> THEN r.image.data ELSE @]
    /\ UNCHANGED pin

PreviewRun == \E p \in {"a", "b"} : PipelineRun("preview", p)

ExportRun == \E p \in {"a", "b"} : PipelineRun("export", p)

RunsNext ==
    \/ PreviewRun /\ UNCHANGED appVars
    \/ ExportRun /\ UNCHANGED appVars

SpecRuns == RunsInit /\ [][RunsNext]_vars

\* C18: two runs of the pipeline on the same original bytes with the same
\* baseColor, baseExposure and settings produce the same bytes, whichever
\* preview runs and exports, with whichever values, happened in between:
\* every run's output is the output of the first run with its values.
C18_Deterministic ==
    pout.hist # <<>> => pout.last = pout.first[pout.hist[Len(pout.hist)].p]

\* a run with a, an export with b and another output, then a run with a
C18_Witness ==
    /\ Len(pout.hist) = 3
    /\ pout.hist[1].p = "a" /\ pout.hist[2] = [which |-> "export", p |-> "b"]
    /\ pout.hist[3] = [which |-> "preview", p |-> "a"]
    /\ pout.first.b # pout.first.a
    /\ pout.last = pout.first.a
    /\ pout.last # pin.data

-----------------------------------------------------------------------------
(* IEEE 754 binary64 arithmetic, for the stages whose rounding matters *)

\* natural numbers of any size: the sequence of their digits in base 256,
\* least significant first, without a leading zero (0 is the empty sequence)
BigTop(a) ==
    LET nz == {i \in 1..Len(a) : a[i] # 0}
    IN  IF nz = {} THEN 0 ELSE CHOOSE i \in nz : \A j \in nz : j <= i

BigTrim(a) == SubSeq(a, 1, BigTop(a))

RECURSIVE BigOf(_)
BigOf(n) == IF n = 0 THEN <<>> ELSE <<n % 256>> \o BigOf(n \div 256)

RECURSIVE BigAddCarry(_, _, _)
BigAddCarry(a, b, c) ==
    IF a = <<>> /\ b = <<>>
    THEN IF c = 0 THEN <<>> ELSE <<c>>
    ELSE LET x == IF a = <<>> THEN 0 ELSE a[1]
             y == IF b = <<>> THEN 0 ELSE b[1]
         IN  <<(x + y + c) % 256>> \o
             BigAddCarry(IF a = <<>> THEN <<>> ELSE Tail(a),
                         IF b = <<>> THEN <<>> ELSE Tail(b),
                         (x + y + c) \div 256)

BigAdd(a, b) == BigAddCarry(a, b, 0)

RECURSIVE BigSubBorrow(_, _, _)
BigSubBorrow(a, b, c) ==
    IF a = <<>> THEN <<>>
    ELSE LET y == IF b = <<>> THEN 0 ELSE b[1]
         IN  <<(a[1] - y - c) % 256>> \o
             BigSubBorrow(Tail(a), IF b = <<>> THEN <<>> ELSE Tail(b),
                          IF a[1] - y - c < 0 THEN 1 ELSE 0)

\* a - b, for a >= b
BigSub(a, b) == BigTrim(BigSubBorrow(a, b, 0))

BigLess(a, b) ==
    IF Len(a) # Len(b) THEN Len(a) < Len(b)
    ELSE LET df == {i \in 1..Len(a) : a[i] # b[i]}
         IN  df # {} /\ LET t == CHOOSE i \in df : \A j \in df : j <= i
                        IN  a[t] < b[t]

RECURSIVE BigScaleCarry(_, _, _)
BigScaleCarry(a, k, c) ==
    IF a = <<>>
    THEN IF c = 0 THEN <<>> ELSE <<c>>
    ELSE <<(a[1] * k + c) % 256>> \o BigScaleCarry(Tail(a), k, (a[1] * k + c) \div 256)

\* a * k, for 0 <= k <= 256
BigScale(a, k) == IF k = 0 THEN <<>> ELSE BigTrim(BigScaleCarry(a, k, 0))

\* a * 2^k, for k >= 0 (k <= 0 leaves a)
BigShift(a, k) ==
    IF a = <<>> \/ k <= 0 THEN a
    ELSE [i \in 1..(k \div 8) |-> 0] \o BigScale(a, 2^(k % 8))

RECURSIVE BigMul(_, _)
BigMul(a, b) ==
    IF a = <<>> \/ b = <<>> THEN <<>>
    ELSE BigAdd(BigScale(a, b[1]), BigShift(BigMul(a, Tail(b)), 8))

\* the number of bits of a
BigBitLen(a) ==
    IF a = <<>> THEN 0
    ELSE 8 * (Len(a) - 1) + CHOOSE k \in 1..8 : 2^(k - 1) <= a[Len(a)] /\ a[Len(a)] < 2^k

\* long division of n by d, d > 0, on the digits i..Len(n) of n
RECURSIVE BigDivFrom(_, _, _)
BigDivFrom(n, d, i) ==
    IF i > Len(n) THEN [q |-> <<>>, r |-> <<>>]
    ELSE LET p  == CHOOSE x \in {BigDivFrom(n, d, i + 1)} : TRUE
             rr == CHOOSE x \in {BigTrim(<<n[i]>> \o p.r)} : TRUE
             qd == CHOOSE k \in 0..255 :
                      /\ ~BigLess(rr, BigScale(d, k))
                      /\ BigLess(rr, BigScale(d, k + 1))
         IN  [q |-> BigTrim(<<qd>> \o p.q), r |-> BigSub(rr, BigScale(d, qd))]

\* quotient and remainder of n by d, d > 0
BigDivMod(n, d) == BigDivFrom(n, d, 1)

\* a finite double: s * m * 2^e with m a natural number; after F64Norm m is
\* odd, or the number is zero
F64Zero == [s |-> 1, m |-> <<>>, e |-> 0]

F64Norm(x) ==
    IF x.m = <<>> THEN F64Zero
    ELSE LET z == (CHOOSE i \in 1..Len(x.m) :
                      x.m[i] # 0 /\ \A j \in 1..(i - 1) : x.m[j] = 0) - 1
             t == CHOOSE k \in 0..7 :
                      x.m[z + 1] % 2^k = 0 /\ (x.m[z + 1] \div 2^k) % 2 = 1
             w == SubSeq(x.m, z + 1, Len(x.m))
         IN  [s |-> x.s,
              m |-> BigTrim([i \in 1..Len(w) |->
                               (w[i] \div 2^t) +
                               (IF i < Len(w) THEN (w[i + 1] % 2^t) * 2^(8 - t) ELSE 0)]),
              e |-> x.e + 8 * z + t]

\* the double of an integer below 2^31
F64Of(i) == F64Norm([s |-> IF i < 0 THEN -1 ELSE 1, m |-> BigOf(Abs(i)), e |-> 0])

\* the double nearest to s * (n / d) * 2^e, ties to the even significand
\* (53 bits; the values of the pipeline are far from overflow and underflow)
F64Round(s, n, d, e) ==
    IF n = <<>> THEN F64Zero
    ELSE LET k0  == 53 - (BigBitLen(n) - BigBitLen(d))
             Q(k) == BigDivMod(BigShift(n, k), BigShift(d, 0 - k))
             q0  == CHOOSE x \in {Q(k0)} : TRUE
             k   == IF BigBitLen(q0.q) > 53 THEN k0 - 1 ELSE k0
             qr  == CHOOSE x \in {IF k = k0 THEN q0 ELSE Q(k)} : TRUE
             dd  == BigShift(d, 0 - k)
             r2  == BigScale(qr.r, 2)
             up  == BigLess(dd, r2) \/ (r2 = dd /\ qr.q[1] % 2 = 1)
         IN  F64Norm([s |-> s,
                      m |-> IF up THEN BigAdd(qr.q, <<1>>) ELSE qr.q,
                      e |-> e - k])

F64Neg(x) == IF x.m = <<>> THEN x ELSE [x EXCEPT !.s = 0 - x.s]

\* x + y without rounding
F64Sum(x, y) ==
    IF x.m = <<>> THEN y
    ELSE IF y.m = <<>> THEN x
    ELSE LET e0 == IF x.e < y.e THEN x.e ELSE y.e
             mx == BigShift(x.m, x.e - e0)
             my == BigShift(y.m, y.e - e0)
         IN  F64Norm(IF x.s = y.s
                     THEN [s |-> x.s, m |-> BigAdd(mx, my), e |-> e0]
                     ELSE IF BigLess(mx, my)
                     THEN [s |-> y.s, m |-> BigSub(my, mx), e |-> e0]
                     ELSE [s |-> x.s, m |-> BigSub(mx, my), e |-> e0])

\* the operators +, -, * and / of the language on doubles
F64Add(x, y) ==
    LET z == CHOOSE r \in {F64Sum(x, y)} : TRUE IN F64Round(z.s, z.m, <<1>>, z.e)

F64Sub(x, y) == F64Add(x, F64Neg(y))

F64Mul(x, y) == F64Round(x.s * y.s, BigMul(x.m, y.m), <<1>>, x.e + y.e)

F64Div(x, y) == F64Round(x.s * y.s, x.m, y.m, x.e - y.e)

-----------------------------------------------------------------------------
(* The highlight stage in exact and in double arithmetic *)

\* parseFloat of a slider value n/d: the nearest double
F64OfNum(q) == F64Div(F64Of(q[1]), F64Of(q[2]))

\* r = baseR > 10 ? (r / baseR) * 255 * baseExposure : r, in doubles
MaskRemovalF64(v, base, exposure) ==
    IF base > 10
    THEN F64Mul(F64Mul(F64Div(F64Of(v), F64Of(base)), F64Of(255)), F64OfNum(exposure))
    ELSE F64Of(v)

\* r = 255 - r; r += rShadow, in doubles
ShadowOffsetF64(v, shadow) == F64Add(F64Sub(F64Of(255), v), F64Of(shadow))

\* r *= (1 + rHigh / 100), in doubles
HighlightGainF64(v, high) ==
    F64Mul(v, F64Add(F64Of(1), F64Div(F64Of(high), F64Of(100))))

\* a source byte, the parameters of the stages before the highlight stage,
\* and a highlight value h whose double is in the range of the slider
HighInputs ==
    [pixel    : {0, 1, 90, 120, 200, 252, 255},
     base     : {10, 240},
     exposure : {<<11, 10>>},
     shadow   : {0, -30, 20},
     high     : {-50, -46, -10, -3, 0, 1, 5, 10, 25, 33, 50}]

HighInit ==
    /\ AppInit
    /\ pin \in HighInputs
    /\ pout = NoOutput

\* stages 1 to 3 on the byte, then the highlight stage with h and with 2h:
\* the value after stage 3 and the two changes (value after stage 4 minus
\* value after stage 3), in exact arithmetic and as the doubles the program
\* holds (their difference taken without rounding)
HighlightStage ==
    /\ pout = NoOutput
    /\ \E x \in {ShadowOffset(Invert(MaskRemoval(Num(pin.pixel), pin.base, pin.exposure)),
                              pin.shadow)},
          f \in {ShadowOffsetF64(MaskRemovalF64(pin.pixel, pin.base, pin.exposure),
                                 pin.shadow)} :
          pout' = [done  |-> TRUE,
                   exact |-> [v3  |-> x,
                              one |-> RSub(HighlightGain(x, pin.high), x),
                              two |-> RSub(HighlightGain(x, 2 * pin.high), x)],
                   f64   |-> [v3  |-> f,
                              one |-> F64Sum(HighlightGainF64(f, pin.high), F64Neg(f)),
                              two |-> F64Sum(HighlightGainF64(f, 2 * pin.high), F64Neg(f))]]
    /\ UNCHANGED pin

HighNext == HighlightStage /\ UNCHANGED appVars

SpecHigh == HighInit /\ [][HighNext]_vars

\* 2 * x, exactly
F64Twice(x) == IF x.m = <<>> THEN x ELSE [x EXCEPT !.e = x.e + 1]

\* |x| < 2^k
F64Below(x, k) == x.m = <<>> \/ BigBitLen(x.m) + x.e <= k

-----------------------------------------------------------------------------
(* The output buffer of the three pipelines: applyFilters, processImage of
   the first variant and processPixels of the camera variant *)

\* one channel through the loop body of processImage or processPixels:
\* inversion, r += rBal, r *= brightness, r = contrast * (r - 128) + 128
BalanceValue(masked, bal, brightness, contrast) ==
    ContrastPivot(BrightnessGain(ShadowOffset(Invert(masked), bal), brightness), contrast)

\* the base and the balance of the channel of byte i
ChannelBase(i, base) ==
    IF (i - 1) % 4 = 0 THEN base.r ELSE IF (i - 1) % 4 = 1 THEN base.g ELSE base.b

ChannelBal(i, set) ==
    IF (i - 1) % 4 = 0 THEN set.rBal ELSE IF (i - 1) % 4 = 1 THEN set.gBal ELSE set.bBal

\* processImage: dest is the data of ctx.createImageData(width, height), all
\* zero; the loop over src writes the three channels and dest[i + 3] = 255
ProcessImage(src, width, height, base, set) ==
    [data   |-> [i \in 1..(4 * width * height) |->
                    IF i > Len(src) THEN 0
                    ELSE IF (i - 1) % 4 = 3 THEN 255
                    ELSE Store(BalanceValue(MaskRemovalFirst(Num(src[i]),
                                                             ChannelBase(i, base)),
                                            ChannelBal(i, set), set.brightness,
                                            set.contrast))],
     width  |-> width,
     height |-> height]

\* processPixels: the loop writes data[i], data[i + 1], data[i + 2] in place
ProcessPixels(data, base, set) ==
    [i \in 1..Len(data) |->
        IF (i - 1) % 4 = 3 THEN data[i]
        ELSE Store(BalanceValue(MaskRemovalCamera(Num(data[i]), ChannelBase(i, base)),
                                ChannelBal(i, set), set.brightness, set.contrast))]

\* source buffers with several alpha bytes, and values of the parameters
AlphaInputs ==
    [image      : {[data |-> <<200, 120, 90, 255>>, width |-> 1, height |-> 1],
                   [data |-> <<0, 255, 128, 0>>, width |-> 1, height |-> 1],
                   [data |-> <<13, 77, 255, 7>>, width |-> 1, height |-> 1],
                   [data |-> <<200, 120, 90, 128, 240, 170, 140, 255>>,
                    width |-> 2, height |-> 1],
                   [data |-> <<200, 120, 90, 128, 240, 170, 140, 255>>,
                    width |-> 1, height |-> 2],
                   [data |-> <<1, 2, 3, 0, 250, 250, 250, 254>>,
                    width |-> 2, height |-> 1],
                   [data |-> <<1, 2, 3, 0, 250, 250, 250, 254>>,
                    width |-> 1, height |-> 2]},
     base       : {defaultBaseColor, [r |-> 0, g |-> 5, b |-> 11]},
     brightness : {Num(1), Num(2)},
     contrast   : {Num(1), <<11, 10>>},
     offset     : {0, 20}]

AlphaInit ==
    /\ AppInit
    /\ pin \in AlphaInputs
    /\ pout = NoOutput

\* one run of each pipeline on the source buffer: applyFilters as
\* processPreview and handleSave call it, processImage on a canvas of the
\* size of originalDataRef, processPixels on a copy as reprocessStaticImage
\* calls it
PipelineOutputs ==
    /\ pout = NoOutput
    /\ LET set    == [defaultSettings EXCEPT !.brightness = pin.brightness,
                                             !.contrast = pin.contrast,
                                             !.rShadow = pin.offset,
                                             !.bHigh = pin.offset]
           bal    == [brightness |-> pin.brightness, contrast |-> pin.contrast,
                      rBal |-> pin.offset, gBal |-> 0, bBal |-> 0 - pin.offset]
       IN  pout' = [done   |-> TRUE,
                    app    |-> ApplyFilters(pin.image.data, pin.image.width,
                                            pin.image.height, pin.base,
                                            defaultExposure, set).image,
                    first  |-> ProcessImage(pin.image.data, pin.image.width,
                                            pin.image.height, pin.base, bal),
                    camera |-> [pin.image EXCEPT
                                   !.data = ProcessPixels(pin.image.data, pin.base, bal)]]
    /\ UNCHANGED pin

AlphaNext == PipelineOutputs /\ UNCHANGED appVars

SpecAlpha == AlphaInit /\ [][AlphaNext]_vars

\* the alpha bytes of a buffer
AlphaBytes(data) == [k \in 1..(Len(data) \div 4) |-> data[4 * k]]

\* C20: for every pixel the output alpha byte equals the source alpha byte
\* (applyFilters, processPixels) or is 255 (processImage of the first
\* variant), and the output buffer has the width, height and length of the
\* source.
C20_AlphaAndShape ==
    pout.done =>
        /\ AlphaBytes(pout.app.data) = AlphaBytes(pin.image.data)
        /\ AlphaBytes(pout.camera.data) = AlphaBytes(pin.image.data)
        /\ \A k \in 1..(Len(pin.image.data) \div 4) : pout.first.data[4 * k] = 255
        /\ \A o \in {pout.app, pout.first, pout.camera} :
              /\ o.width = pin.image.width
              /\ o.height = pin.image.height
              /\ Len(o.data) = Len(pin.image.data)

\* two pixels with alpha 128 and 255 have been processed: every colour
\* byte changed, the alpha bytes kept by applyFilters and processPixels and
\* forced to 255 by processImage
C20_Witness ==
    /\ pout.done
    /\ pin.image.width = 1 /\ pin.image.height = 2
    /\ AlphaBytes(pin.image.data) = <<128, 255>>
    /\ AlphaBytes(pout.app.data) = <<128, 255>>
    /\ AlphaBytes(pout.camera.data) = <<128, 255>>
    /\ AlphaBytes(pout.first.data) = <<255, 255>>
    /\ \A i \in {1, 2, 3} : pout.app.data[i] # pin.image.data[i]

-----------------------------------------------------------------------------
(* Claims about the preview scale, checked under SpecSize *)

\* C21: the preview scale is min(1, cap / source width), applied to both
\* dimensions: the preview is never larger than the source in either
\* dimension, its width never exceeds the cap, and a source no wider than
\* the cap keeps exactly its width and height.
C21_ScaleNeverEnlarges ==
    pout.done =>
        /\ pout.scale = (IF pin.width > previewMaxWidth
                         THEN RDiv(Num(previewMaxWidth), Num(pin.width)) ELSE Num(1))
        /\ pout.width <= pin.width /\ pout.height <= pin.height
        /\ pout.width <= previewMaxWidth
        /\ pin.width <= previewMaxWidth
              => (pout.width = pin.width /\ pout.height = pin.height)

\* a source twice as wide as the cap has been halved in both dimensions
C21_Witness ==
    /\ pout.done
    /\ pin.width = 1600 /\ pin.height = 1000
    /\ pout.scale = <<1, 2>>
    /\ pout.width = 800 /\ pout.height = 500

-----------------------------------------------------------------------------
(* The midtone stage over the documented range of its strength *)

\* the strengths for which the midtone stage is examined, and the range the
\* tone values are compared with
ToneRange == -100..100

\* 1 + rMid / 50, the divisor of the exponent
MidDivisor(mid) == RAdd(Num(1), RDiv(Num(mid), Num(50)))

\* a midtone strength of the range and a value r at the midtone stage
MidInputs ==
    [mid : ToneRange, value : {Num(0), Num(51), Num(255)}]

MidInit ==
    /\ AppInit
    /\ pin \in MidInputs
    /\ pout = NoOutput

\* the strengths on which the model evaluates Math.pow: an infinite
\* exponent, or an integer exponent of at most 5 in magnitude
MidEvaluated(mid) ==
    LET e == MidExponent(mid)
    IN  mid = 0 \/ ~IsFinite(e) \/ (e[2] = 1 /\ Abs(e[1]) <= 5)

\* if (rMid !== 0) r = 255 * Math.pow(Math.max(0, r / 255), 1 / (1 + rMid / 50)):
\* the divisor, the exponent and, where the model evaluates Math.pow, the
\* result
MidtoneStage ==
    /\ pout = NoOutput
    /\ pout' = [done     |-> TRUE,
                divisor  |-> MidDivisor(pin.mid),
                exponent |-> MidExponent(pin.mid),
                exact    |-> MidEvaluated(pin.mid),
                value    |-> IF MidEvaluated(pin.mid)
                             THEN MidtoneCurve(pin.value, pin.mid)
                             ELSE NaN]
    /\ UNCHANGED pin

MidNext == MidtoneStage /\ UNCHANGED appVars

SpecMid == MidInit /\ [][MidNext]_vars

\* C22 (as claimed): for every midtone strength in [-100, 100] the stage is
\* well defined: 0 is a no-op, and for every other strength the divisor
\* 1 + mid/50 is strictly positive, so the exponent is neither the result
\* of a division by zero nor negative.
C22_MidtoneWellDefined ==
    pout.done =>
        /\ pin.mid = 0 => pout.value = pin.value
        /\ pin.mid # 0 => /\ RLt(Num(0), pout.divisor)
                          /\ IsFinite(pout.exponent)
                          /\ RLt(Num(0), pout.exponent)

-----------------------------------------------------------------------------
(* Claims about the two originals, checked under Spec *)

\* C23 (as claimed): after any sequence of image loads, with or without a
\* canvas context, the preview original and the full-resolution original
\* are both absent or both those of the most recently loaded image (the
\* images of Spec are narrower than the preview cap, so the two originals
\* of one image are equal).
C23_OriginalsOfOneImage == NoOriginal \/ SameSource

-----------------------------------------------------------------------------
(* Claims about the parameter updates, checked under Spec *)

\* the settings fields whose value the step changes
ChangedFields == {k \in DOMAIN settings : settings'[k] # settings[k]}

-----------------------------------------------------------------------------
(* Repeated presses of the +/- buttons of one tone control *)

\* the magnitude up to which the presses are followed
MaxPressed == 101

\* the settingKey of the nine calls of renderChannelControl
ChannelKeys ==
    {"rShadow", "gShadow", "bShadow", "rMid", "gMid", "bMid", "rHigh", "gHigh", "bHigh"}

\* the control whose buttons are pressed, and the settings before any press
PressInit ==
    /\ AppInit
    /\ pin \in [key : ChannelKeys]
    /\ pout = [done |-> FALSE, set |-> defaultSettings]

\* onClick={() => update(-1)} and onClick={() => update(1)}:
\* setSettings(prev => ({ ...prev, [settingKey]: prev[settingKey] + delta }))
PressButton ==
    /\ \E delta \in {-1, 1} :
          /\ Abs(pout.set[pin.key] + delta) <= MaxPressed
          /\ pout' = [done |-> TRUE,
                      set  |-> [pout.set EXCEPT ![pin.key] = pout.set[pin.key] + delta]]
    /\ UNCHANGED pin

PressNext == PressButton /\ UNCHANGED appVars

SpecPress == PressInit /\ [][PressNext]_vars

\* C25 (as claimed): after any sequence of +/- presses on the shadow,
\* midtone and highlight controls every tone value is within [-100, 100].
C25_ToneWithinRange ==
    \A k \in ChannelKeys : pout.set[k] \in ToneRange

-----------------------------------------------------------------------------
(* Claims about the ways baseColor changes, checked under Spec *)

\* C26: baseColor changes only by a pointer-up while picking mode is on and
\* an image is loaded, by resetBase, or by the completion of an image load;
\* a pointer-up either takes a sample and turns picking mode off, or leaves
\* baseColor and picking mode unchanged; a pointer-up while picking mode is
\* off changes nothing.
C26_BaseColorChanges ==
    [][/\ baseColor' # baseColor =>
             \/ HandlePointerUp /\ isPickingBase /\ imageLoaded
             \/ ResetBase
             \/ ImgOnload /\ uploads' # uploads
       /\ HandlePointerUp =>
             \/ UNCHANGED <<baseColor, isPickingBase>>
             \/ isPickingBase /\ imageLoaded /\ ~isPickingBase'
       /\ (HandlePointerUp /\ ~isPickingBase) =>
             UNCHANGED <<imageLoaded, isPickingBase, baseColor, baseExposure,
                         settings, previewDataRef, fullResDataRef, canvas,
                         effectPending, timers, uploads>>]_vars

\* a sample has just been taken from the two-pixel-wide preview
C26_Witness ==
    /\ imageLoaded /\ previewDataRef.width = 2
    /\ baseColor = [r |-> 200, g |-> 120, b |-> 90]
    /\ ~isPickingBase
    /\ effectPending
    /\ settings = defaultSettings

-----------------------------------------------------------------------------
(* The camera variant (src/unnamed/part_003): live preview and freeze *)

\* the number of startCamera invocations that are followed
MaxStarts == 2

\* frames the video element supplies to drawImage, one pixel each
CameraFrames == {<<200, 120, 90, 255>>, <<240, 170, 140, 255>>}

\* values the brightness slider is moved to
CameraSliderValues == {Num(1), Num(2)}

\* useState<RGB>({ r: 230, g: 160, b: 130 }) of the camera variant
baseColorCamera == [r |-> 230, g |-> 160, b |-> 130]

\* useState<'idle' | 'live' | 'frozen'>('idle')
mode == pout.mode

\* requestRef: 0 is null, k > 0 the handle of the request outstanding for the
\* loop of the k-th startCamera, -1 a handle already delivered or cancelled
requestRef == pout.requestRef

\* streamRef: 0 is null, k > 0 the stream obtained by the k-th startCamera
streamRef == pout.streamRef

\* originalDataRef: << >> is null
originalDataRef == pout.originalDataRef

\* the values of one render that the functions created in it close over
Render == [mode |-> pout.mode, baseColor |-> pout.baseColor,
           settings |-> pout.settings]

\* the component after its first render; pin records what has happened:
\* quiet since the last freezeImage with no startCamera after it, restarted
\* when the mode last became live from frozen, drawn when a render-loop
\* frame has been drawn since the mode last became live
CameraInit ==
    /\ AppInit
    /\ pout = [mode            |-> "idle",
               isPickingBase   |-> FALSE,
               baseColor       |-> baseColorCamera,
               settings        |-> settingsCamera,
               effectDue       |-> FALSE,
               starts          |-> 0,
               pending         |-> {},
               frames          |-> {},
               requestRef      |-> 0,
               streamRef       |-> 0,
               srcObject       |-> 0,
               tracks          |-> {},
               ready           |-> FALSE,
               canvas          |-> <<0, 0, 0, 0>>,
               originalDataRef |-> << >>]
    /\ pin = [quiet |-> FALSE, restarted |-> FALSE, drawn |-> FALSE]

\* reprocessStaticImage of the render r
ReprocessStaticImage(r, original, cv) ==
    IF r.mode # "frozen" \/ original = << >> THEN cv
    ELSE ProcessPixels(original, r.baseColor, r.settings)

\* the handle in requestRef once the request of loop k has been delivered
\* or cancelled
Delivered(ref, k) == IF ref = k THEN -1 ELSE ref

\* startCamera up to its await: getUserMedia is called and the rest of the
\* function, with the renderLoop of this render, waits for the promise
StartCamera ==
    /\ ~pout.effectDue
    /\ mode \in {"idle", "frozen"}
    /\ pout.starts < MaxStarts
    /\ pout' = [pout EXCEPT !.starts = @ + 1,
                            !.pending = @ \cup {[k |-> pout.starts + 1,
                                                 render |-> Render]}]
    /\ pin' = [pin EXCEPT !.quiet = FALSE]

\* startCamera after its await when the promise is fulfilled
GetUserMediaResolve ==
    \E p \in pout.pending :
        /\ pout' = [pout EXCEPT !.pending = @ \ {p},
                                !.tracks = @ \cup {p.k},
                                !.srcObject = p.k,
                                !.ready = FALSE,
                                !.streamRef = p.k,
                                !.mode = "live",
                                !.effectDue = @ \/ pout.mode # "live",
                                !.frames = @ \cup {p},
                                !.requestRef = p.k]
        /\ pin' = IF mode = "live" THEN pin
                  ELSE [pin EXCEPT !.restarted = (mode = "frozen"),
                                   !.drawn = FALSE]

\* startCamera after its await when the promise is rejected: the catch block
GetUserMediaReject_live ==
    \E p \in pout.pending :
        /\ pout' = [pout EXCEPT !.pending = @ \ {p}, !.mode = "live"]
        /\ UNCHANGED pin

GetUserMediaReject ==
    \E p \in pout.pending :
        /\ pout' = [pout EXCEPT !.pending = @ \ {p}]
        /\ UNCHANGED pin

\* the video element has enough data of the stream it plays
VideoCanPlay ==
    /\ pout.srcObject \in pout.tracks
    /\ ~pout.ready
    /\ pout' = [pout EXCEPT !.ready = TRUE]
    /\ UNCHANGED pin

\* the video element runs out of data once the tracks of its stream stopped
VideoEnded ==
    /\ pout.srcObject \notin pout.tracks
    /\ pout.ready
    /\ pout' = [pout EXCEPT !.ready = FALSE]
    /\ UNCHANGED pin

\* renderLoop, called for an animation frame: the function of the render in
\* which startCamera was invoked, which requests itself again
RenderLoop ==
    \E f \in pout.frames :
        IF f.render.mode = "frozen"
        THEN /\ pout' = [pout EXCEPT !.frames = @ \ {f},
                                     !.requestRef = Delivered(@, f.k)]
             /\ UNCHANGED pin
        ELSE IF pout.ready
        THEN \E raw \in CameraFrames :
                /\ pout' = [pout EXCEPT
                              !.canvas = ProcessPixels(raw, f.render.baseColor,
                                                       f.render.settings),
                              !.requestRef = f.k]
                /\ pin' = [pin EXCEPT !.drawn = TRUE]
        ELSE /\ pout' = [pout EXCEPT !.requestRef = f.k]
             /\ UNCHANGED pin

\* stopCamera: the frames left after cancelAnimationFrame(requestRef.current)
StopCamera(frames, ref) == {f \in frames : f.k # ref}

\* freezeImage, with stopCamera and the reprocessStaticImage of its render
FreezeImage ==
    /\ ~pout.effectDue
    /\ mode = "live"
    /\ \E raw \in CameraFrames :
        LET drawn == IF pout.ready THEN raw ELSE pout.canvas
        IN  pout' = [pout EXCEPT
                       !.mode = "frozen",
                       !.effectDue = TRUE,
                       !.tracks = @ \ {streamRef},
                       !.streamRef = 0,
                       !.frames = StopCamera(@, requestRef),
                       !.requestRef = IF @ = 0 THEN 0 ELSE -1,
                       !.originalDataRef = drawn,
                       !.canvas = ReprocessStaticImage(Render, drawn, drawn)]
    /\ pin' = [pin EXCEPT !.quiet = TRUE]

\* the effect on [baseColor, settings, mode, reprocessStaticImage]
CameraEffect ==
    /\ pout.effectDue
    /\ pout' = [pout EXCEPT
                  !.effectDue = FALSE,
                  !.canvas = IF mode = "frozen"
                             THEN ReprocessStaticImage(Render, originalDataRef, @)
                             ELSE @]
    /\ UNCHANGED pin

\* onChange of the brightness slider
SetBrightness ==
    /\ ~pout.effectDue
    /\ \E v \in CameraSliderValues :
        pout' = [pout EXCEPT !.settings = [pout.settings EXCEPT !.brightness = v],
                             !.effectDue = TRUE]
    /\ UNCHANGED pin

\* onClick of the reset button
ResetParamsClick ==
    /\ ~pout.effectDue
    /\ pout' = [pout EXCEPT !.settings = ResetParams, !.effectDue = TRUE]
    /\ UNCHANGED pin

\* onClick of the base colour button, shown while the mode is frozen
SetIsPickingBase ==
    /\ ~pout.effectDue
    /\ mode = "frozen"
    /\ pout' = [pout EXCEPT !.isPickingBase = ~@]
    /\ UNCHANGED pin

\* handleCanvasClick at canvas coordinates (x, y), the canvas one pixel wide
HandleCanvasClick ==
    /\ ~pout.effectDue
    /\ \E x \in Coordinates, y \in Coordinates :
        LET index == (y * 1 + x) * 4
            data  == originalDataRef
        IN  IF \/ ~pout.isPickingBase \/ mode # "frozen" \/ data = << >>
               \/ index + 1 \notin DOMAIN data
            THEN pout' = pout
            ELSE pout' = [pout EXCEPT
                            !.baseColor = [r |-> data[index + 1],
                                           g |-> data[index + 2],
                                           b |-> data[index + 3]],
                            !.isPickingBase = FALSE,
                            !.effectDue = TRUE]
    /\ UNCHANGED pin

CameraNext ==
    \/ StartCamera /\ UNCHANGED appVars
    \/ GetUserMediaResolve /\ UNCHANGED appVars
    \/ GetUserMediaReject /\ UNCHANGED appVars
    \/ VideoCanPlay /\ UNCHANGED appVars
    \/ VideoEnded /\ UNCHANGED appVars
    \/ RenderLoop /\ UNCHANGED appVars
    \/ FreezeImage /\ UNCHANGED appVars
    \/ CameraEffect /\ UNCHANGED appVars
    \/ SetBrightness /\ UNCHANGED appVars
    \/ ResetParamsClick /\ UNCHANGED appVars
    \/ SetIsPickingBase /\ UNCHANGED appVars
    \/ HandleCanvasClick /\ UNCHANGED appVars

SpecCamera == CameraInit /\ [][CameraNext]_vars

\* a requested animation frame is delivered, a promise is settled, a playing
\* video gets its data and React runs a scheduled effect
FairCamera ==
    /\ SpecCamera
    /\ WF_vars(RenderLoop /\ UNCHANGED appVars)
    /\ WF_vars((GetUserMediaResolve \/ GetUserMediaReject) /\ UNCHANGED appVars)
    /\ WF_vars(VideoCanPlay /\ UNCHANGED appVars)
    /\ WF_vars(CameraEffect /\ UNCHANGED appVars)

-----------------------------------------------------------------------------
(* Claims about the camera variant, checked under SpecCamera and FairCamera *)

\* C27 (as claimed): once the camera has been restarted after a freeze (the
\* mode went from frozen to live) and while the mode stays live and the video
\* has data, a live frame is eventually processed and drawn.
C27_LoopResumes ==
    (pin.restarted /\ mode = "live" /\ pout.ready) ~> (pin.drawn \/ mode # "live")

\* C28 (as claimed): while the mode is live, a frame drawn by the render loop
\* is a video frame processed with the baseColor and settings that are
\* current when it is drawn.
C28_CurrentValuesDrawn ==
    [][(RenderLoop /\ mode = "live" /\ pout.ready /\ pout'.frames = pout.frames)
          => \E raw \in CameraFrames :
                pout'.canvas = ProcessPixels(raw, pout.baseColor, pout.settings)]_vars

\* C29 (as claimed): at most one render loop is scheduled at any time, from
\* freezeImage until startCamera is invoked again no render-loop callback
\* runs, and in that time, once the effect of the frozen render has run, the
\* canvas shows the pipeline applied to the captured frame with the current
\* baseColor and settings.
C29_FrozenIsQuiet ==
    /\ [](Cardinality(pout.frames) <= 1)
    /\ [][RenderLoop => ~pin.quiet]_vars
    /\ []((pin.quiet /\ mode = "frozen" /\ ~pout.effectDue) =>
            pout.canvas = ProcessPixels(originalDataRef, pout.baseColor,
                                        pout.settings))

\* C30: a rejected getUserMedia leaves the mode as it is (idle stays idle,
\* frozen stays frozen), retains no stream, starts no track and requests no
\* animation frame.
C30_RejectChangesNothing ==
    [][GetUserMediaReject =>
          /\ mode' = mode
          /\ streamRef' = streamRef
          /\ requestRef' = requestRef
          /\ pout'.frames = pout.frames
          /\ pout'.tracks = pout.tracks
          /\ pout'.srcObject = pout.srcObject
          /\ pout'.pending # pout.pending]_vars

\* both invocations of startCamera, one in idle and one in frozen mode, have
\* been rejected: the mode is frozen again and no stream is held
C30_Witness ==
    /\ pout.starts = 2 /\ pout.pending = {}
    /\ mode = "frozen"
    /\ pout.srcObject = 1
    /\ streamRef = 0 /\ pout.tracks = {}
    /\ pout.frames = {}

====
